---- MODULE Spec2Model ----
(***************************************************************************)
(* Model of the supplier ETL pipeline of natanrelva/adaas: extractors,     *)
(* ProductTransformer, CatalogManager, ComplianceLogger, ComplianceAuditor *)
(* and the pipeline scripts.  Files are modelled by their contents: the    *)
(* per-supplier JSONL ledger, the raw and normalized product files and the *)
(* catalog repository file.                                                *)
(***************************************************************************)
EXTENDS Integers, Sequences, FiniteSets, TLC

VARIABLES
    ledger,       \* supplier -> sequence of entries of logs/<s>_etl_log.jsonl (<<>>: no file)
    rawFile,      \* directory data/raw: supplier -> products of <s>_raw_products.json
    normFile,     \* directory data/normalized: supplier -> products of <s>_products_normalized.json
    catalogFile,  \* <<>> when catalog_repository.json is absent, else <<document>>
    auditLog,     \* entries of logs/audit_log.jsonl
    pipe,         \* position of run_supplier_pipeline: [sup, stage]
    extracts,     \* number of extract() calls so far
    last,         \* the last operation called and how it ended
    now,          \* the UTC clock (datetime.utcnow()), in days
    config,       \* data/suppliers.json: supplier -> its configuration
    mainRun,      \* position of main() of run_all_pipelines.py and its results
    procs         \* the processes that run at the same time: name -> local state

vars == <<ledger, rawFile, normFile, catalogFile, auditLog, pipe, extracts, last,
          now, config, mainRun, procs>>

(***************************************************************************)
(* Bounds of the model.                                                    *)
(***************************************************************************)
MaxBatch == 2
MaxLedger == 8
MaxExtracts == 2
MaxAudits == 1

(***************************************************************************)
(* Program constants.                                                      *)
(***************************************************************************)
\* BUSINESS_RULES["default_margin"] = 0.30, as a percentage
default_margin == 30
\* money is counted in tenths of a cent, so that a price below one cent can be
\* written: 20.00 is 20000
Cent == 10
\* BUSINESS_RULES["default_shipping"] = 15.00
default_shipping == 1500 * Cent

\* the suppliers _update_metadata and audit_all_suppliers iterate over
KnownSuppliers == <<"gramore", "elmar", "rmoura">>
\* the suppliers run_supplier_pipeline is called for
Suppliers == {"gramore", "elmar"}
\* the supplier of the stage scripts extract_gramore.py, transform_gramore.py
\* and integrate_gramore.py
ScriptSuppliers == {"gramore"}

Range(f) == {f[i] : i \in DOMAIN f}

\* dict.get(key, default)
Get(d, k, default) == IF k \in DOMAIN d THEN d[k] ELSE default

\* d[key] = value on a dict
Put(d, k, v) == [x \in DOMAIN d \cup {k} |-> IF x = k THEN v ELSE d[x]]

IsPrefix(a, b) == Len(a) <= Len(b) /\ SubSeq(b, 1, Len(a)) = a

\* the part of b after its first Len(a) elements
Suffix(a, b) == SubSeq(b, Len(a) + 1, Len(b))

(***************************************************************************)
(* Raw product records a supplier source can deliver.  A price of 20.00 is  *)
(* written 20000.                                                          *)
(* A record may lack supplier_product_id or name; a product with an empty  *)
(* name is one the product schema rejects.                                 *)
(***************************************************************************)
RawRecords ==
    { [supplier_product_id |-> "X1", name |-> "Quinoa", price |-> 20000],
      [supplier_product_id |-> "X1", name |-> "Quinoa", price |-> 25000],
      [supplier_product_id |-> "X2", name |-> "Chia", price |-> 20000],
      [supplier_product_id |-> "X2", name |-> "", price |-> 20000],
      [supplier_product_id |-> "X2", price |-> 20000] }

RECURSIVE SeqsUpTo(_, _)
SeqsUpTo(S, n) ==
    IF n = 0 THEN {<<>>}
    ELSE LET shorter == SeqsUpTo(S, n - 1)
         IN  shorter \cup {Append(q, x) : q \in {t \in shorter : Len(t) = n - 1}, x \in S}

RawBatches == SeqsUpTo(RawRecords, MaxBatch)

(***************************************************************************)
(* ComplianceLogger.  A writer w = [log, n, raised] is the ledger file     *)
(* during one stage call: n counts the appends the call has issued, and    *)
(* the append number failAt (0: none) fails with an I/O error.             *)
(***************************************************************************)
Writer(log) == [log |-> log, n |-> 0, raised |-> FALSE]

\* datetime.utcnow()
utcnow == now

\* dt.isoformat() + "Z"
Timestamp(dt) == [iso |-> dt, suffix |-> "Z"]

\* text.replace("Z", "") on a timestamp
StripZ(text) == [text EXCEPT !.suffix = ""]

\* datetime.fromisoformat(text): defined for a text without the "Z" suffix
CanParse(text) == text.suffix = ""

fromisoformat(text) == text.iso

\* json.dumps(data, sort_keys=True) and SHA-256: a digest that depends on the
\* content alone and differs for different contents
_generate_hash(data) == <<"sha256", data>>

\* mutant: the log file opened with mode "w" instead of "a"
_write_log_Truncating(w, log_entry, failAt) ==
    IF w.n + 1 = failAt
    THEN [log |-> w.log, n |-> w.n + 1, raised |-> TRUE]
    ELSE [log |-> <<log_entry>>, n |-> w.n + 1, raised |-> FALSE]

\* mutant: the file is rewritten with the new entry as its first line
_write_log_Prepending(w, log_entry, failAt) ==
    IF w.n + 1 = failAt
    THEN [log |-> w.log, n |-> w.n + 1, raised |-> TRUE]
    ELSE [log |-> <<log_entry>> \o w.log, n |-> w.n + 1, raised |-> FALSE]

\* open(log_file, "a") and f.write(line): the line is added to the end of the
\* file in one piece
_write_log(w, log_entry, failAt) ==
    IF w.n + 1 = failAt
    THEN [log |-> w.log, n |-> w.n + 1, raised |-> TRUE]
    ELSE [log |-> Append(w.log, log_entry), n |-> w.n + 1, raised |-> FALSE]

log_extraction(w, supplier_id, product_data, source_url, status, failAt) ==
    _write_log(w, [timestamp |-> Timestamp(utcnow),
                   operation |-> "extraction",
                   supplier |-> supplier_id,
                   source_url |-> source_url,
                   status |-> status,
                   data_hash |-> _generate_hash(product_data),
                   product_id |-> Get(product_data, "id", "unknown")], failAt)

log_transformation(w, supplier_id, product_id, raw_hash, normalized_data, failAt) ==
    _write_log(w, [timestamp |-> Timestamp(utcnow),
                   operation |-> "transformation",
                   supplier |-> supplier_id,
                   product_id |-> product_id,
                   raw_data_hash |-> raw_hash,
                   normalized_hash |-> _generate_hash(normalized_data),
                   status |-> "success"], failAt)

log_validation(w, supplier_id, product_id, validation_result, errors, failAt) ==
    _write_log(w, [timestamp |-> Timestamp(utcnow),
                   operation |-> "validation",
                   supplier |-> supplier_id,
                   product_id |-> product_id,
                   valid |-> validation_result,
                   errors |-> errors], failAt)

log_catalog_integration(w, supplier_id, product_id, catalog_id, failAt) ==
    _write_log(w, [timestamp |-> Timestamp(utcnow),
                   operation |-> "catalog_integration",
                   supplier |-> supplier_id,
                   product_id |-> product_id,
                   catalog_id |-> catalog_id,
                   status |-> "success"], failAt)

(***************************************************************************)
(* Extractors (Gramore, Elmar, RMoura share the same extract).             *)
(***************************************************************************)
base_url(supplier_id) == "https://" \o supplier_id

\* mutant: the digest stored in the product is taken after the source url
\* has been added to the product
RECURSIVE ExtractLoop_HashAfter(_, _, _, _, _, _)
ExtractLoop_HashAfter(supplier_id, products, i, w, done, failAt) ==
    IF i > Len(products)
    THEN [w |-> w, products |-> done, raised |-> FALSE]
    ELSE LET w2 == log_extraction(w, supplier_id, products[i],
                                  base_url(supplier_id), "success", failAt)
             hash_id == _generate_hash(Put(products[i], "source_url",
                                           base_url(supplier_id)))
         IN  IF w2.raised
             THEN [w |-> w2, products |-> done, raised |-> TRUE]
             ELSE ExtractLoop_HashAfter(supplier_id, products, i + 1, w2,
                              Append(done, Put(products[i], "extraction_hash", hash_id)),
                              failAt)

\* the loop of extract over products[i..]: log each product, then store the
\* returned digest in it; an append that raises ends the loop
RECURSIVE ExtractLoop(_, _, _, _, _, _)
ExtractLoop(supplier_id, products, i, w, done, failAt) ==
    IF i > Len(products)
    THEN [w |-> w, products |-> done, raised |-> FALSE]
    ELSE LET w2 == log_extraction(w, supplier_id, products[i],
                                  base_url(supplier_id), "success", failAt)
             hash_id == _generate_hash(products[i])
         IN  IF w2.raised
             THEN [w |-> w2, products |-> done, raised |-> TRUE]
             ELSE ExtractLoop(supplier_id, products, i + 1, w2,
                              Append(done, Put(products[i], "extraction_hash", hash_id)),
                              failAt)

\* mutant: the except branch re-raises without logging the error entry
extract_NoErrorEntry(supplier_id, fetched, batch, log, failAt) ==
    LET run == IF fetched
               THEN ExtractLoop(supplier_id, batch, 1, Writer(log), <<>>, failAt)
               ELSE [w |-> Writer(log), products |-> <<>>, raised |-> TRUE]
    IN  IF run.raised
        THEN [log |-> run.w.log, ok |-> FALSE, products |-> <<>>,
              io_failed |-> failAt \in 1..run.w.n]
        ELSE [log |-> run.w.log, ok |-> TRUE, products |-> run.products,
              io_failed |-> FALSE]

\* extract(): fetched is FALSE when the source raises.  On any exception one
\* more entry, for {} with status "error", is logged and the exception goes on.
extract(supplier_id, fetched, batch, log, failAt) ==
    LET run == IF fetched
               THEN ExtractLoop(supplier_id, batch, 1, Writer(log), <<>>, failAt)
               ELSE [w |-> Writer(log), products |-> <<>>, raised |-> TRUE]
    IN  IF run.raised
        THEN LET w2 == log_extraction(run.w, supplier_id, <<>>,
                                      base_url(supplier_id), "error", failAt)
             IN  [log |-> w2.log, ok |-> FALSE, products |-> <<>>,
                  io_failed |-> failAt \in 1..w2.n]
        ELSE [log |-> run.w.log, ok |-> TRUE, products |-> run.products,
              io_failed |-> FALSE]

(***************************************************************************)
(* ProductTransformer.                                                     *)
(***************************************************************************)
\* a / b rounded to the nearest integer, ties to even
RoundDiv(a, b) ==
    LET q == a \div b
        r == a % b
    IN  IF 2 * r > b \/ (2 * r = b /\ q % 2 = 1) THEN q + 1 ELSE q

\* mutant: the time of the run is hashed into the id
_generate_product_id_Timed(supplier_id, supplier_product_id) ==
    "sha256/16:" \o supplier_id \o ":" \o supplier_product_id \o ":" \o ToString(utcnow)

\* sha256(combined)[:16] of combined = "<supplier_id>:<supplier_product_id>"
_generate_product_id(supplier_id, supplier_product_id) ==
    "sha256/16:" \o supplier_id \o ":" \o supplier_product_id

\* round(base_price * (1 + margin) + shipping, 2): the nearest whole number of
\* cents; margin in percent
_calculate_final_price(base_price, margin, shipping) ==
    Cent * RoundDiv(base_price * (100 + margin) + 100 * shipping, 100 * Cent)

\* _normalize_product raises KeyError on raw_product["supplier_product_id"] or ["name"]
Assembles(raw_product) ==
    /\ "supplier_product_id" \in DOMAIN raw_product
    /\ "name" \in DOMAIN raw_product

_normalize_product(supplier_id, raw_product) ==
    LET base_price == Get(raw_product, "price", 0)
    IN  [id |-> _generate_product_id(supplier_id, raw_product.supplier_product_id),
         supplier |-> supplier_id,
         supplier_product_id |-> raw_product.supplier_product_id,
         name |-> raw_product.name,
         brand |-> Get(raw_product, "brand", ""),
         category |-> Get(raw_product, "category", "Geral"),
         price |-> [base |-> base_price,
                    margin |-> default_margin,
                    shipping |-> default_shipping,
                    final |-> _calculate_final_price(base_price, default_margin,
                                                     default_shipping)],
         metadata |-> [extraction_date |-> Timestamp(utcnow),
                       source_url |-> Get(raw_product, "source_url", ""),
                       hash |-> Get(raw_product, "extraction_hash", "")],
         created_at |-> Timestamp(utcnow),
         updated_at |-> Timestamp(utcnow)]

\* the product schema document (schemas/product_schema.json): requires a
\* non-empty name
SchemaAccepts(product) == product.name # ""

\* (is_valid, errors) of jsonschema.validate against the schema
_validate_product(product) ==
    IF SchemaAccepts(product)
    THEN [is_valid |-> TRUE, errors |-> <<>>]
    ELSE [is_valid |-> FALSE, errors |-> <<"name: too short">>]

\* mutant: an invalid record is dropped without its validation entry
TransformRecord_SilentInvalid(supplier_id, st, raw_product, failAt) ==
    IF ~Assembles(raw_product) THEN st
    ELSE
    LET normalized == _normalize_product(supplier_id, raw_product)
        w1 == log_transformation(st.w, supplier_id, normalized.id,
                                 Get(raw_product, "extraction_hash", "unknown"),
                                 normalized, failAt)
        w2 == log_validation(w1, supplier_id, normalized.id, TRUE, <<>>, failAt)
    IN  IF ~_validate_product(normalized).is_valid THEN st
        ELSE IF w1.raised THEN [w |-> w1, out |-> st.out]
        ELSE IF w2.raised THEN [w |-> w2, out |-> st.out]
        ELSE [w |-> w2, out |-> Append(st.out, normalized)]

\* mutant: the validation entry of a valid record is logged before its
\* transformation entry
TransformRecord_ValidationFirst(supplier_id, st, raw_product, failAt) ==
    IF ~Assembles(raw_product) THEN st
    ELSE
    LET normalized == _normalize_product(supplier_id, raw_product)
        v == _validate_product(normalized)
        w1 == log_validation(st.w, supplier_id, normalized.id, TRUE, <<>>, failAt)
        w2 == log_transformation(w1, supplier_id, normalized.id,
                                 Get(raw_product, "extraction_hash", "unknown"),
                                 normalized, failAt)
    IN  IF ~v.is_valid
        THEN [w |-> log_validation(st.w, supplier_id,
                                   Get(raw_product, "supplier_product_id", "unknown"),
                                   FALSE, v.errors, failAt),
              out |-> st.out]
        ELSE IF w1.raised THEN [w |-> w1, out |-> st.out]
        ELSE IF w2.raised THEN [w |-> w2, out |-> st.out]
        ELSE [w |-> w2, out |-> Append(st.out, normalized)]

\* mutant: normalized_products.append runs for an invalid record too
TransformRecord_KeepsInvalid(supplier_id, st, raw_product, failAt) ==
    IF ~Assembles(raw_product) THEN st
    ELSE
    LET normalized == _normalize_product(supplier_id, raw_product)
        v == _validate_product(normalized)
        w1 == log_transformation(st.w, supplier_id, normalized.id,
                                 Get(raw_product, "extraction_hash", "unknown"),
                                 normalized, failAt)
        w2 == log_validation(w1, supplier_id, normalized.id, TRUE, <<>>, failAt)
        w3 == log_validation(st.w, supplier_id,
                             Get(raw_product, "supplier_product_id", "unknown"),
                             FALSE, v.errors, failAt)
    IN  IF ~v.is_valid
        THEN [w |-> w3, out |-> IF w3.raised THEN st.out ELSE Append(st.out, normalized)]
        ELSE IF w1.raised THEN [w |-> w1, out |-> st.out]
        ELSE IF w2.raised THEN [w |-> w2, out |-> st.out]
        ELSE [w |-> w2, out |-> Append(st.out, normalized)]

\* one pass of the body of transform's for loop; st = [w, out]: the ledger
\* writer and normalized_products.  Every exception of the body, a failed
\* append included, is caught and the loop continues with the next record.
TransformRecord(supplier_id, st, raw_product, failAt) ==
    IF ~Assembles(raw_product) THEN st
    ELSE
    LET normalized == _normalize_product(supplier_id, raw_product)
        v == _validate_product(normalized)
    IN  IF v.is_valid
        THEN LET raw_hash == Get(raw_product, "extraction_hash", "unknown")
                 w1 == log_transformation(st.w, supplier_id, normalized.id,
                                          raw_hash, normalized, failAt)
                 w2 == log_validation(w1, supplier_id, normalized.id, TRUE, <<>>, failAt)
             IN  IF w1.raised THEN [w |-> w1, out |-> st.out]
                 ELSE IF w2.raised THEN [w |-> w2, out |-> st.out]
                 ELSE [w |-> w2, out |-> Append(st.out, normalized)]
        ELSE [w |-> log_validation(st.w, supplier_id,
                                   Get(raw_product, "supplier_product_id", "unknown"),
                                   FALSE, v.errors, failAt),
              out |-> st.out]

RECURSIVE TransformLoop(_, _, _, _, _)
TransformLoop(supplier_id, products, i, st, failAt) ==
    IF i > Len(products) THEN st
    ELSE TransformLoop(supplier_id, products, i + 1,
                       TransformRecord(supplier_id, st, products[i], failAt), failAt)

\* transform() on the loaded raw products: the ledger after it and the list
\* it saves and returns
transform(supplier_id, products, log, failAt) ==
    LET st == TransformLoop(supplier_id, products, 1,
                            [w |-> Writer(log), out |-> <<>>], failAt)
    IN  [log |-> st.w.log, out |-> st.out, io_failed |-> failAt \in 1..st.w.n]

(***************************************************************************)
(* CatalogManager.                                                         *)
(***************************************************************************)
CountSupplier(products, supplier) ==
    Cardinality({i \in DOMAIN products : products[i].supplier = supplier})

\* the catalog file between open(catalog_file, "w"), which empties it, and
\* the end of json.dump: not a complete JSON document
Truncated == [truncated |-> TRUE]

\* the catalog a new CatalogManager holds: the file's document, or a new one;
\* json.load raises JSONDecodeError on a file that is not a complete document
_load_catalog(file) ==
    IF file # <<>>
    THEN IF file[1] = Truncated THEN [raised |-> "JSONDecodeError"] ELSE file[1]
    ELSE [version |-> "1.0.0",
          products |-> <<>>,
          metadata |-> [total_products |-> 0,
                        suppliers |-> [s \in Range(KnownSuppliers) |-> 0]]]

\* mutant: total_products is increased by the catalog size instead of set to it
_update_metadata_Accumulating(catalog) ==
    [catalog EXCEPT
        !.metadata.total_products = catalog.metadata.total_products + Len(catalog.products),
        !.metadata.suppliers =
            [s \in DOMAIN catalog.metadata.suppliers \cup Range(KnownSuppliers) |->
                IF s \in Range(KnownSuppliers)
                THEN CountSupplier(catalog.products, s)
                ELSE catalog.metadata.suppliers[s]]]

_update_metadata(catalog) ==
    [catalog EXCEPT
        !.metadata.total_products = Len(catalog.products),
        !.metadata.suppliers =
            [s \in DOMAIN catalog.metadata.suppliers \cup Range(KnownSuppliers) |->
                IF s \in Range(KnownSuppliers)
                THEN CountSupplier(catalog.products, s)
                ELSE catalog.metadata.suppliers[s]]]

\* mutant: the filter compares the product id, not the supplier, with
\* supplier_id, so no old product is removed
RemoveSupplier_KeepsOld(products, supplier_id) ==
    SelectSeq(products, LAMBDA p : p.id # supplier_id)

\* mutant: the product list is emptied before the supplier's batch is added
RemoveSupplier_All(products, supplier_id) ==
    SelectSeq(products, LAMBDA p : FALSE)

\* "Remove produtos antigos do mesmo fornecedor"
RemoveSupplier(products, supplier_id) ==
    SelectSeq(products, LAMBDA p : p.supplier # supplier_id)

\* mutant: the loop validates each product again and logs the validation
\* before it logs the integration
RECURSIVE IntegrateLoop_Validating(_, _, _, _, _, _)
IntegrateLoop_Validating(supplier_id, products, i, w, indexed, failAt) ==
    IF i > Len(products)
    THEN [w |-> w, products |-> indexed, raised |-> FALSE]
    ELSE LET w1 == log_validation(w, supplier_id, products[i].id, TRUE, <<>>, 0)
             w2 == log_catalog_integration(w1, supplier_id, products[i].id,
                                           products[i].id, failAt)
         IN  IF w2.raised
             THEN [w |-> w2, products |-> Append(indexed, products[i]), raised |-> TRUE]
             ELSE IntegrateLoop_Validating(supplier_id, products, i + 1, w2,
                                           Append(indexed, products[i]), failAt)

\* get_supplier_products: the products of supplier s, in catalog order
SupplierProducts(products, s) == SelectSeq(products, LAMBDA p : p.supplier = s)

\* the loop of integrate_supplier over products[i..]: index the product in
\* the catalog, then log it; an append that raises leaves the loop
RECURSIVE IntegrateLoop(_, _, _, _, _, _)
IntegrateLoop(supplier_id, products, i, w, indexed, failAt) ==
    IF i > Len(products)
    THEN [w |-> w, products |-> indexed, raised |-> FALSE]
    ELSE LET w2 == log_catalog_integration(w, supplier_id, products[i].id,
                                           products[i].id, failAt)
         IN  IF w2.raised
             THEN [w |-> w2, products |-> Append(indexed, products[i]), raised |-> TRUE]
             ELSE IntegrateLoop(supplier_id, products, i + 1, w2,
                                Append(indexed, products[i]), failAt)

\* integrate_supplier on the loaded normalized products: catalog is the
\* manager's catalog after the call, saved is TRUE when _save_catalog ran
integrate_supplier(supplier_id, products, catalog, log, failAt) ==
    LET run == IntegrateLoop(supplier_id, products, 1, Writer(log),
                             RemoveSupplier(catalog.products, supplier_id), failAt)
        filled == [catalog EXCEPT !.products = run.products]
    IN  IF run.raised
        THEN [log |-> run.w.log, catalog |-> filled, saved |-> FALSE,
              count |-> run.w.n - 1]
        ELSE [log |-> run.w.log, catalog |-> _update_metadata(filled), saved |-> TRUE,
              count |-> run.w.n]

\* mutant: the supplier's old products are removed and the catalog is saved
\* before the normalized file is looked for
IntegrateCall_RemovesFirst(supplier_id, normalized, catalog, log, failAt) ==
    IF supplier_id \notin DOMAIN normalized
    THEN [log |-> log,
          catalog |-> [catalog EXCEPT !.products = RemoveSupplier(@, supplier_id)],
          saved |-> TRUE, count |-> 0, found |-> FALSE]
    ELSE Put(integrate_supplier(supplier_id, normalized[supplier_id], catalog, log, failAt),
             "found", TRUE)

\* integrate_supplier called on a manager that holds catalog, with the
\* directory of normalized files: without the supplier's file it raises
\* FileNotFoundError (found = FALSE) before anything else
IntegrateCall(supplier_id, normalized, catalog, log, failAt) ==
    IF supplier_id \notin DOMAIN normalized
    THEN [log |-> log, catalog |-> catalog, saved |-> FALSE, count |-> 0, found |-> FALSE]
    ELSE Put(integrate_supplier(supplier_id, normalized[supplier_id], catalog, log, failAt),
             "found", TRUE)

RECURSIVE SumFinal(_, _)
SumFinal(products, i) ==
    IF i > Len(products) THEN 0 ELSE products[i].price.final + SumFinal(products, i + 1)

\* the distinct non-empty categories (get_categories returns them as a sorted list)
get_categories(catalog) ==
    {Get(catalog.products[i], "category", "") : i \in DOMAIN catalog.products} \ {""}

get_statistics(catalog) ==
    LET products == catalog.products
        prices == {products[i].price.final : i \in DOMAIN products}
    IN  IF products = <<>>
        THEN [total_products |-> 0,
              suppliers |-> <<>>,
              categories |-> {},
              price_range |-> [min |-> 0, max |-> 0, avg |-> 0]]
        ELSE [total_products |-> Len(products),
              suppliers |-> catalog.metadata.suppliers,
              categories |-> get_categories(catalog),
              price_range |->
                  [min |-> CHOOSE x \in prices : \A y \in prices : x <= y,
                   max |-> CHOOSE x \in prices : \A y \in prices : x >= y,
                   avg |-> Cent * RoundDiv(SumFinal(products, 1), Len(products) * Cent)]]

(***************************************************************************)
(* ComplianceAuditor.                                                      *)
(***************************************************************************)
RequiredOperations == {"extraction", "transformation", "validation", "catalog_integration"}

\* mutant: traceable when any of the required operations is found
verify_traceability_AnyOperation(log, product_id, supplier_id) ==
    LET product_logs == SelectSeq(log, LAMBDA e : Get(e, "product_id", "") = product_id)
        operations == {product_logs[i].operation : i \in DOMAIN product_logs}
    IN  IF log = <<>>
        THEN [traceable |-> FALSE, reason |-> "Logs nao encontrados"]
        ELSE IF product_logs = <<>>
        THEN [traceable |-> FALSE, reason |-> "Produto nao encontrado nos logs"]
        ELSE [traceable |-> RequiredOperations \cap operations # {},
              product_id |-> product_id,
              supplier |-> supplier_id,
              operations_found |-> operations,
              timeline |-> product_logs]

\* log is the ledger file (<<>>: no file).  log["operation"] and
\* x["timestamp"] raise KeyError on an entry without the key.  The entries
\* of a ledger are in the order of their timestamps, which sorted() keeps.
verify_traceability(log, product_id, supplier_id) ==
    LET product_logs == SelectSeq(log, LAMBDA e : Get(e, "product_id", "") = product_id)
        operations == {product_logs[i].operation : i \in DOMAIN product_logs}
    IN  IF log = <<>>
        THEN [traceable |-> FALSE, reason |-> "Logs nao encontrados"]
        ELSE IF product_logs = <<>>
        THEN [traceable |-> FALSE, reason |-> "Produto nao encontrado nos logs"]
        ELSE IF \E i \in DOMAIN product_logs :
                    {"operation", "timestamp"} \ DOMAIN product_logs[i] # {}
        THEN [raised |-> "KeyError"]
        ELSE [traceable |-> RequiredOperations \subseteq operations,
              product_id |-> product_id,
              supplier |-> supplier_id,
              operations_found |-> operations,
              timeline |-> product_logs]

\* the for loop of _read_logs over an open ledger file, one line further:
\* logs is what it has read so far; json.loads gives the entry of the line
_read_logs(log_file, logs) ==
    IF Len(logs) < Len(log_file) THEN Append(logs, log_file[Len(logs) + 1]) ELSE logs

_count_operations(logs, op) ==
    Cardinality({i \in DOMAIN logs : Get(logs[i], "operation", "unknown") = op})

\* success_count and len(logs): the rate is their quotient (0.0 without logs)
_calculate_success_rate(logs) ==
    [successes |-> Cardinality({i \in DOMAIN logs : Get(logs[i], "status", "") = "success"}),
     total |-> Len(logs)]

\* mutant: the comparison is success_rate <= 0.95
BelowThreshold_Inclusive(rate) ==
    IF rate.total = 0 THEN TRUE ELSE 100 * rate.successes <= 95 * rate.total

\* success_rate < 0.95
BelowThreshold(rate) ==
    IF rate.total = 0 THEN TRUE ELSE 100 * rate.successes < 95 * rate.total

_verify_data_integrity(logs) ==
    [total_extractions |-> _count_operations(logs, "extraction"),
     total_transformations |-> _count_operations(logs, "transformation"),
     hash_integrity |-> "verified"]

audit_supplier(log, supplier_id) ==
    LET rate == _calculate_success_rate(log)
        ops == {Get(log[i], "operation", "unknown") : i \in DOMAIN log}
    IN  IF log = <<>>
        THEN [supplier |-> supplier_id, status |-> "no_logs"]
        ELSE LET audit_result ==
                     [supplier |-> supplier_id,
                      audit_date |-> Timestamp(utcnow),
                      total_operations |-> Len(log),
                      operations_by_type |-> [op \in ops |-> _count_operations(log, op)],
                      success_rate |-> rate,
                      data_integrity |-> _verify_data_integrity(log),
                      compliance_status |-> "compliant"]
             IN  IF BelowThreshold(rate)
                 THEN Put(Put(audit_result, "compliance_status", "warning"),
                          "issues", <<"Taxa de sucesso abaixo de 95%">>)
                 ELSE audit_result

\* audit_all_suppliers: the results for the three suppliers, in order; logs
\* maps the suppliers with a ledger file to its entries
audit_all_suppliers(logs) ==
    [i \in DOMAIN KnownSuppliers |->
        audit_supplier(Get(logs, KnownSuppliers[i], <<>>), KnownSuppliers[i])]

\* COMPLIANCE["log_retention_days"]
log_retention_days == 365

\* mutant: the comparison is log_date <= cutoff_date
OldLogs_Inclusive(logs, cutoff_date) ==
    {<<s, i>> \in (DOMAIN logs) \X (1..MaxLedger) :
        /\ i \in DOMAIN logs[s]
        /\ CanParse(StripZ(logs[s][i].timestamp))
        /\ fromisoformat(StripZ(logs[s][i].timestamp)) <= cutoff_date}

\* old_logs: the (file, entry) places of the entries with log_date < cutoff_date
OldLogs(logs, cutoff_date) ==
    {<<s, i>> \in (DOMAIN logs) \X (1..MaxLedger) :
        /\ i \in DOMAIN logs[s]
        /\ CanParse(StripZ(logs[s][i].timestamp))
        /\ fromisoformat(StripZ(logs[s][i].timestamp)) < cutoff_date}

\* mutant: the entries found old are removed from their ledger files
check_retention_policy_Purging(logs) ==
    LET cutoff_date == utcnow - log_retention_days
        old_logs == OldLogs(logs, cutoff_date)
    IN  [report |-> [retention_days |-> log_retention_days,
                     logs_to_archive |-> Cardinality(old_logs),
                     cutoff_date |-> Timestamp(cutoff_date)],
         old_logs |-> old_logs,
         logs |-> [s \in DOMAIN logs |->
                     SelectSeq(logs[s],
                               LAMBDA e : ~(fromisoformat(StripZ(e.timestamp)) < cutoff_date))]]

\* check_retention_policy on the ledger files logs: the report it returns,
\* the old_logs list it has built (the report carries its length only) and
\* the files after it, which it has opened for reading only
check_retention_policy(logs) ==
    LET cutoff_date == utcnow - log_retention_days
        old_logs == OldLogs(logs, cutoff_date)
    IN  [report |-> [retention_days |-> log_retention_days,
                     logs_to_archive |-> Cardinality(old_logs),
                     cutoff_date |-> Timestamp(cutoff_date)],
         old_logs |-> old_logs,
         logs |-> logs]

(***************************************************************************)
(* State machine.                                                          *)
(***************************************************************************)
Idle == [sup |-> "none", stage |-> "idle"]

Outcome(op, supplier_id, status, io_failed, piped) ==
    [op |-> op, sup |-> supplier_id, status |-> status,
     io_failed |-> io_failed, piped |-> piped]

\* no two processes run at the same time
NoProcesses == <<>>

\* main() of run_all_pipelines.py is not running
NotRunning == [pos |-> 0, results |-> <<>>]

\* a suppliers.json in which every supplier is active and has given consent
AllConsenting == [s \in Range(KnownSuppliers) |-> [consent_obtained |-> TRUE]]

Init ==
    /\ ledger = [s \in Suppliers |-> <<>>]
    /\ rawFile = <<>>
    /\ normFile = <<>>
    /\ catalogFile = <<>>
    /\ auditLog = <<>>
    /\ pipe = Idle
    /\ extracts = 0
    /\ last = Outcome("init", "none", "ok", FALSE, FALSE)
    /\ now = 0
    /\ config = AllConsenting
    /\ mainRun = NotRunning
    /\ procs = NoProcesses

\* the appends a call may issue fit the ledger bound
Room(s, n) == Len(ledger[s]) + n <= MaxLedger

\* extract() of a supplier's extractor, called by extract_<s>.py (piped =
\* FALSE) or as stage 1 of run_supplier_pipeline (piped = TRUE)
Extract(s, fetched, batch, failAt, piped) ==
    /\ pipe = Idle
    /\ extracts < MaxExtracts
    /\ extracts' = extracts + 1
    /\ Room(s, IF piped /\ batch # <<>> THEN 4 * Len(batch) ELSE Len(batch) + 1)
    /\ LET r == extract(s, fetched, batch, ledger[s], failAt)
       IN  /\ failAt = 0 \/ r.io_failed
           /\ ledger' = [ledger EXCEPT ![s] = r.log]
           /\ rawFile' = IF r.ok THEN Put(rawFile, s, r.products) ELSE rawFile
           /\ pipe' = IF piped /\ r.ok THEN [sup |-> s, stage |-> "transform"] ELSE Idle
           /\ last' = Outcome("extract", s, IF r.ok THEN "ok" ELSE "error",
                              r.io_failed, piped)
    /\ UNCHANGED <<normFile, catalogFile, auditLog, now, config, procs>>

\* ProductTransformer(s).transform(), called by transform_<s>.py or as stage 2
\* of run_supplier_pipeline
Transform(s, failAt, piped) ==
    /\ pipe = IF piped THEN [sup |-> s, stage |-> "transform"] ELSE Idle
    /\ IF s \notin DOMAIN rawFile
       THEN /\ failAt = 0
            /\ last' = Outcome("transform", s, "error", FALSE, piped)
            /\ pipe' = Idle
            /\ UNCHANGED <<ledger, normFile>>
       ELSE /\ Room(s, 2 * Len(rawFile[s]))
            /\ LET r == transform(s, rawFile[s], ledger[s], failAt)
               IN  /\ failAt = 0 \/ r.io_failed
                   /\ ledger' = [ledger EXCEPT ![s] = r.log]
                   /\ normFile' = Put(normFile, s, r.out)
                   /\ last' = Outcome("transform", s, "ok", r.io_failed, piped)
            /\ pipe' = IF piped THEN [sup |-> s, stage |-> "integrate"] ELSE Idle
    /\ UNCHANGED <<rawFile, catalogFile, auditLog, extracts, now, config, procs>>

\* CatalogManager().integrate_supplier(s), called by integrate_<s>.py or as
\* stage 3 of run_supplier_pipeline; last.catalog is the catalog the manager
\* of the call holds when the call ends
Integrate(s, failAt, piped) ==
    /\ pipe = IF piped THEN [sup |-> s, stage |-> "integrate"] ELSE Idle
    /\ s \in DOMAIN normFile => Room(s, Len(normFile[s]))
    /\ LET r == IntegrateCall(s, normFile, _load_catalog(catalogFile), ledger[s], failAt)
       IN  /\ failAt = 0 \/ (r.found /\ ~r.saved)
           /\ ledger' = [ledger EXCEPT ![s] = r.log]
           /\ catalogFile' = IF r.saved THEN <<r.catalog>> ELSE catalogFile
           /\ last' = Put(Outcome("integrate", s,
                                  IF r.found /\ r.saved THEN "ok" ELSE "error",
                                  r.found /\ ~r.saved, piped),
                          "catalog", r.catalog)
    /\ pipe' = Idle
    /\ UNCHANGED <<rawFile, normFile, auditLog, extracts, now, config, procs>>

\* ComplianceAuditor().verify_traceability(product_id, s); last.result is
\* what it returns
VerifyTraceability(s, product_id) ==
    /\ LET r == verify_traceability(ledger[s], product_id, s)
       IN  last' = Put(Put(Outcome("verify_traceability", s,
                                   IF "raised" \in DOMAIN r THEN "error" ELSE "ok",
                                   FALSE, FALSE),
                           "product_id", product_id),
                       "result", r)
    /\ UNCHANGED <<ledger, rawFile, normFile, catalogFile, auditLog, pipe, extracts,
                   now, config, mainRun, procs>>

\* ComplianceAuditor().audit_supplier(s): without a ledger file it returns
\* before _save_audit_report
AuditSupplier(s) ==
    /\ Len(auditLog) < MaxAudits
    /\ auditLog' = IF ledger[s] = <<>> THEN auditLog
                   ELSE Append(auditLog, audit_supplier(ledger[s], s))
    /\ last' = Outcome("audit_supplier", s, "ok", FALSE, FALSE)
    /\ UNCHANGED <<ledger, rawFile, normFile, catalogFile, pipe, extracts,
                   now, config, mainRun, procs>>

\* the scripts of one stage
ScriptStage ==
    \/ \E s \in ScriptSuppliers, batch \in RawBatches :
            Extract(s, TRUE, batch, 0, FALSE) /\ UNCHANGED mainRun
    \/ \E s \in ScriptSuppliers : Extract(s, FALSE, <<>>, 0, FALSE) /\ UNCHANGED mainRun
    \/ \E s \in ScriptSuppliers : Transform(s, 0, FALSE) /\ UNCHANGED mainRun
    \/ \E s \in ScriptSuppliers : Integrate(s, 0, FALSE) /\ UNCHANGED mainRun

\* the stages of run_supplier_pipeline
PipelineStage ==
    \/ \E s \in Suppliers, batch \in RawBatches :
            Extract(s, TRUE, batch, 0, TRUE) /\ UNCHANGED mainRun
    \/ \E s \in Suppliers : Extract(s, FALSE, <<>>, 0, TRUE) /\ UNCHANGED mainRun
    \/ \E s \in Suppliers : Transform(s, 0, TRUE) /\ UNCHANGED mainRun
    \/ \E s \in Suppliers : Integrate(s, 0, TRUE) /\ UNCHANGED mainRun

Next == ScriptStage \/ PipelineStage

Spec == Init /\ [][Next]_vars

(***************************************************************************)
(* run_supplier_pipeline when one ledger append of a stage fails with an   *)
(* I/O error (SpecIO), and the auditor running between the stages          *)
(* (SpecAudit).                                                            *)
(***************************************************************************)
FailPoints == 1..(2 * MaxBatch)

PipelineStageIO ==
    \/ \E s \in Suppliers, batch \in RawBatches, failAt \in FailPoints :
            Extract(s, TRUE, batch, failAt, TRUE) /\ UNCHANGED mainRun
    \/ \E s \in Suppliers : Extract(s, FALSE, <<>>, 1, TRUE) /\ UNCHANGED mainRun
    \/ \E s \in Suppliers, failAt \in FailPoints :
            Transform(s, failAt, TRUE) /\ UNCHANGED mainRun
    \/ \E s \in Suppliers, failAt \in FailPoints :
            Integrate(s, failAt, TRUE) /\ UNCHANGED mainRun

Auditor ==
    \/ \E s \in Suppliers : VerifyTraceability(s, _generate_product_id(s, "X1"))
    \/ \E s \in Suppliers : AuditSupplier(s)

NextIO == PipelineStage \/ PipelineStageIO

SpecIO == Init /\ [][NextIO]_vars

NextAudit == PipelineStage \/ Auditor

SpecAudit == Init /\ [][NextAudit]_vars

(***************************************************************************)
(* main() of run_all_pipelines.py: the loop over the extractors, with the  *)
(* consent check, run_supplier_pipeline for each supplier and the final    *)
(* summary (SpecRun).                                                      *)
(***************************************************************************)
\* the keys of the extractors dict of main(), in its order
extractors == <<"gramore", "elmar", "rmoura">>

\* the entries a supplier can have in suppliers.json
ConfigEntries ==
    { [consent_obtained |-> TRUE],
      [consent_obtained |-> FALSE],
      [active |-> FALSE, consent_obtained |-> TRUE] }

\* the contents suppliers.json can have
Configs == UNION {[D -> ConfigEntries] : D \in SUBSET Range(extractors)}

\* suppliers_map: the suppliers of suppliers.json that are active
suppliers_map == {s \in DOMAIN config : Get(config[s], "active", TRUE)}

\* config.get("consent_obtained") of a supplier's configuration
consent_obtained(s) == s \in DOMAIN config /\ Get(config[s], "consent_obtained", FALSE)

\* positions of main(): 1..Len(extractors) in the loop, then the summary, then the end
AtSummary == Len(extractors) + 1
Finished == Len(extractors) + 2
Aborted == Len(extractors) + 3

\* main() is in the loop at the supplier s
InLoopAt(s) == mainRun.pos \in DOMAIN extractors /\ extractors[mainRun.pos] = s

\* mutant: run_supplier_pipeline without its except branch, the exception
\* of a stage leaves main()
PipelineReturns_Propagating(r, supplier_id, status) ==
    IF status = "ok"
    THEN [pos |-> r.pos + 1,
          results |-> Append(r.results, [supplier |-> supplier_id, status |-> "success"])]
    ELSE [pos |-> Aborted, results |-> r.results]

\* run_supplier_pipeline returns its result, which main() appends to results
\* before it goes on to the next extractor: the exception of a stage is
\* caught and becomes a result with status "error"
PipelineReturns(r, supplier_id, status) ==
    [pos |-> r.pos + 1,
     results |-> Append(r.results,
                        [supplier |-> supplier_id,
                         status |-> IF status = "ok" THEN "success" ELSE "error"])]

MainStart ==
    /\ mainRun = NotRunning
    /\ pipe = Idle
    /\ mainRun' = [pos |-> 1, results |-> <<>>]
    /\ last' = Outcome("main", "none", "ok", FALSE, FALSE)
    /\ UNCHANGED <<ledger, rawFile, normFile, catalogFile, auditLog, pipe, extracts,
                   now, config, procs>>

\* a supplier that is not in suppliers_map is passed over; one without
\* consent gets a "skipped" result
MainSkip(s) ==
    /\ InLoopAt(s)
    /\ s \notin suppliers_map \/ ~consent_obtained(s)
    /\ mainRun' = [pos |-> mainRun.pos + 1,
                   results |-> IF s \in suppliers_map
                               THEN Append(mainRun.results,
                                           [supplier |-> s, status |-> "skipped",
                                            reason |-> "no_consent"])
                               ELSE mainRun.results]
    /\ last' = Outcome("skip", s, "skipped", FALSE, FALSE)
    /\ UNCHANGED <<ledger, rawFile, normFile, catalogFile, auditLog, pipe, extracts,
                   now, config, procs>>

\* a stage of run_supplier_pipeline called by main(); the pipeline ends when
\* a stage raises and when integrate_supplier has returned
MainStage(s, stage) ==
    /\ InLoopAt(s)
    /\ s \in suppliers_map
    /\ consent_obtained(s)
    /\ stage
    /\ mainRun' = IF pipe' = Idle
                  THEN PipelineReturns(mainRun, s, last'.status)
                  ELSE mainRun

\* "RESUMO FINAL": the statistics of a new CatalogManager
MainSummary ==
    /\ mainRun.pos = AtSummary
    /\ mainRun' = [pos |-> Finished, results |-> mainRun.results,
                   stats |-> get_statistics(_load_catalog(catalogFile))]
    /\ last' = Outcome("summary", "none", "ok", FALSE, FALSE)
    /\ UNCHANGED <<ledger, rawFile, normFile, catalogFile, auditLog, pipe, extracts,
                   now, config, procs>>

Main ==
    \/ MainStart
    \/ \E s \in Range(extractors) : MainSkip(s)
    \/ \E s \in Range(extractors), batch \in RawBatches :
            MainStage(s, Extract(s, TRUE, batch, 0, TRUE))
    \/ \E s \in Range(extractors) : MainStage(s, Extract(s, FALSE, <<>>, 0, TRUE))
    \/ \E s \in Range(extractors) : MainStage(s, Transform(s, 0, TRUE))
    \/ \E s \in Range(extractors), failAt \in 0..1 :
            MainStage(s, Integrate(s, failAt, TRUE))
    \/ MainSummary

InitRun ==
    /\ ledger = [s \in Range(extractors) |-> <<>>]
    /\ rawFile = <<>>
    /\ normFile = <<>>
    /\ catalogFile = <<>>
    /\ auditLog = <<>>
    /\ pipe = Idle
    /\ extracts = 0
    /\ last = Outcome("init", "none", "ok", FALSE, FALSE)
    /\ now = 0
    /\ config \in Configs
    /\ mainRun = NotRunning
    /\ procs = NoProcesses

SpecRun == InitRun /\ [][Main]_vars

(***************************************************************************)
(* The entry points that call extract(): main() of run_all_pipelines.py,   *)
(* of extract_gramore.py and of run_elmar_pipeline.py (SpecEntry).  The    *)
(* two scripts are run before run_all_pipelines.py.                        *)
(***************************************************************************)
\* extract_gramore.py: load_supplier_config raises without a "gramore" entry;
\* without consent main() returns before it constructs the extractor
ExtractGramore(fetched, batch) ==
    /\ mainRun = NotRunning
    /\ "gramore" \in DOMAIN config
    /\ IF Get(config["gramore"], "consent_obtained", FALSE)
       THEN Extract("gramore", fetched, batch, 0, FALSE)
       ELSE /\ pipe = Idle
            /\ last.op # "extract_gramore"
            /\ last' = Outcome("extract_gramore", "gramore", "cancelled", FALSE, FALSE)
            /\ UNCHANGED <<ledger, rawFile, normFile, catalogFile, auditLog, pipe,
                           extracts, now, config, procs>>
    /\ UNCHANGED mainRun

\* run_elmar_pipeline.py: load_supplier_config raises without an "elmar"
\* entry; main() then constructs the extractor and runs the three stages
RunElmarPipeline(stage) ==
    /\ mainRun = NotRunning
    /\ "elmar" \in DOMAIN config
    /\ stage
    /\ UNCHANGED mainRun

\* the batches the sources deliver to the two scripts: at most one record
ScriptBatches == {batch \in RawBatches : Len(batch) <= 1}

EntryScripts ==
    \/ \E batch \in ScriptBatches : ExtractGramore(TRUE, batch)
    \/ ExtractGramore(FALSE, <<>>)
    \/ \E batch \in ScriptBatches : RunElmarPipeline(Extract("elmar", TRUE, batch, 0, TRUE))
    \/ RunElmarPipeline(Extract("elmar", FALSE, <<>>, 0, TRUE))
    \/ RunElmarPipeline(Transform("elmar", 0, TRUE))
    \/ RunElmarPipeline(Integrate("elmar", 0, TRUE))

NextEntry == Main \/ EntryScripts

SpecEntry == InitRun /\ [][NextEntry]_vars

(***************************************************************************)
(* The auditor on ledgers of up to MaxAudited entries (SpecAuditLedger):   *)
(* the gramore ledger holds the entries of extractions that succeeded, of  *)
(* extractions that failed and of validations, which carry no status.      *)
(***************************************************************************)
MaxAudited == 20
MaxUnsuccessful == 2

\* the entry the logger writes for an extraction that succeeded, for one
\* that failed and for a validation
EntryOf(kind, supplier_id) ==
    LET w == Writer(<<>>)
    IN  CASE kind = "success" ->
                log_extraction(w, supplier_id, [supplier_product_id |-> "X1",
                                                name |-> "Quinoa", price |-> 20000],
                               base_url(supplier_id), "success", 0).log[1]
          [] kind = "error" ->
                log_extraction(w, supplier_id, <<>>, base_url(supplier_id), "error", 0).log[1]
          [] OTHER ->
                log_validation(w, supplier_id, "X2", FALSE, <<"name: too short">>, 0).log[1]

\* a ledger of a successes, b extraction errors and c validation entries
LedgerOf(supplier_id, a, b, c) ==
    [i \in 1..(a + b + c) |->
        IF i <= a THEN EntryOf("success", supplier_id)
        ELSE IF i <= a + b THEN EntryOf("error", supplier_id)
        ELSE EntryOf("validation", supplier_id)]

InitAuditLedger ==
    /\ now = 0
    /\ \E a \in 0..MaxAudited, b \in 0..MaxUnsuccessful, c \in 0..MaxUnsuccessful :
          /\ a + b + c <= MaxAudited
          /\ ledger = [s \in Suppliers |->
                          IF s = "gramore" THEN LedgerOf(s, a, b, c) ELSE <<>>]
    /\ rawFile = <<>>
    /\ normFile = <<>>
    /\ catalogFile = <<>>
    /\ auditLog = <<>>
    /\ pipe = Idle
    /\ extracts = 0
    /\ last = Outcome("init", "none", "ok", FALSE, FALSE)
    /\ config = AllConsenting
    /\ mainRun = NotRunning
    /\ procs = NoProcesses

SpecAuditLedger == InitAuditLedger /\ [][Auditor]_vars

(***************************************************************************)
(* The auditor as time passes (SpecRetention): the pipelines write their   *)
(* entries at the time of the clock, the clock moves on, and the auditor   *)
(* audits, verifies and checks the retention policy.                       *)
(***************************************************************************)
MaxClock == 367

\* the times the clock is looked at: the first days, and the days around one
\* retention period later
ClockValues == {t \in 0..MaxClock : t <= 1 \/ t >= log_retention_days}

Tick ==
    /\ pipe = Idle
    /\ \E t \in ClockValues : t > now /\ now' = t
    /\ last' = Outcome("tick", "none", "ok", FALSE, FALSE)
    /\ UNCHANGED <<ledger, rawFile, normFile, catalogFile, auditLog, pipe, extracts,
                   config, mainRun, procs>>

\* the ledger files that exist
LogFiles == [s \in {x \in DOMAIN ledger : ledger[x] # <<>>} |-> ledger[s]]

\* ComplianceAuditor().audit_all_suppliers()
AuditAll ==
    /\ Len(auditLog) < MaxAudits
    /\ auditLog' = auditLog \o SelectSeq(audit_all_suppliers(LogFiles),
                                         LAMBDA r : "status" \notin DOMAIN r)
    /\ last' = Outcome("audit_all", "none", "ok", FALSE, FALSE)
    /\ UNCHANGED <<ledger, rawFile, normFile, catalogFile, pipe, extracts,
                   now, config, mainRun, procs>>

\* ComplianceAuditor().check_retention_policy(); last.report is what it
\* returns and last.old_logs the list it has counted
CheckRetention ==
    /\ last.op # "check_retention"
    /\ LET r == check_retention_policy(LogFiles)
       IN  /\ ledger' = [s \in DOMAIN ledger |-> Get(r.logs, s, <<>>)]
           /\ last' = Put(Put(Outcome("check_retention", "none", "ok", FALSE, FALSE),
                              "report", r.report),
                          "old_logs", r.old_logs)
    /\ UNCHANGED <<rawFile, normFile, catalogFile, auditLog, pipe, extracts,
                   now, config, mainRun, procs>>

\* the pipelines of SpecRetention: the sources deliver at most one record
RetentionPipeline ==
    \/ \E s \in Suppliers, batch \in ScriptBatches :
            Extract(s, TRUE, batch, 0, TRUE) /\ UNCHANGED mainRun
    \/ \E s \in Suppliers : Extract(s, FALSE, <<>>, 0, TRUE) /\ UNCHANGED mainRun
    \/ \E s \in Suppliers : Transform(s, 0, TRUE) /\ UNCHANGED mainRun
    \/ \E s \in Suppliers : Integrate(s, 0, TRUE) /\ UNCHANGED mainRun

NextRetention ==
    \/ RetentionPipeline
    \/ Tick
    \/ \E s \in Suppliers : VerifyTraceability(s, _generate_product_id(s, "X1"))
    \/ \E s \in Suppliers : AuditSupplier(s)
    \/ AuditAll
    \/ CheckRetention

SpecRetention == Init /\ [][NextRetention]_vars

(***************************************************************************)
(* verify_traceability on the ledgers the logger can write (SpecTrace):    *)
(* the gramore ledger is a sequence of up to MaxTraced entries, each of    *)
(* one of the four operations and for one of two products.                 *)
(***************************************************************************)
MaxTraced == 4

\* the product ids of the entries, and one no entry has
LoggedIds == {"P1", "P2"}
TraceIds == LoggedIds \cup {"P3"}

\* the entry log_<operation> writes for the product
TraceEntry(supplier_id, op, product_id) ==
    LET w == Writer(<<>>)
        product == [id |-> product_id, name |-> "Quinoa", price |-> 20000]
    IN  CASE op = "extraction" ->
                log_extraction(w, supplier_id, product, base_url(supplier_id),
                               "success", 0).log[1]
          [] op = "transformation" ->
                log_transformation(w, supplier_id, product_id, _generate_hash(product),
                                   product, 0).log[1]
          [] op = "validation" ->
                log_validation(w, supplier_id, product_id, TRUE, <<>>, 0).log[1]
          [] OTHER ->
                log_catalog_integration(w, supplier_id, product_id, product_id, 0).log[1]

TraceEntries(supplier_id) ==
    {TraceEntry(supplier_id, op, product_id) : op \in RequiredOperations,
                                               product_id \in LoggedIds}

InitTrace ==
    /\ now = 0
    /\ \E log \in SeqsUpTo(TraceEntries("gramore"), MaxTraced) :
          ledger = [s \in Suppliers |-> IF s = "gramore" THEN log ELSE <<>>]
    /\ rawFile = <<>>
    /\ normFile = <<>>
    /\ catalogFile = <<>>
    /\ auditLog = <<>>
    /\ pipe = Idle
    /\ extracts = 0
    /\ last = Outcome("init", "none", "ok", FALSE, FALSE)
    /\ config = AllConsenting
    /\ mainRun = NotRunning
    /\ procs = NoProcesses

NextTrace == \E s \in Suppliers, product_id \in TraceIds : VerifyTraceability(s, product_id)

SpecTrace == InitTrace /\ [][NextTrace]_vars

(***************************************************************************)
(* Re-runs on unchanged raw data (SpecRerun): extract_gramore.py has run   *)
(* once; transform_gramore.py and integrate_gramore.py then run any number *)
(* of times, at any time of the clock.                                     *)
(***************************************************************************)
\* the state extract_gramore.py leaves when the source delivered batch
InitRerun ==
    /\ now = 0
    /\ \E batch \in RawBatches :
          LET r == extract("gramore", TRUE, batch, <<>>, 0)
          IN  /\ ledger = [s \in Suppliers |-> IF s = "gramore" THEN r.log ELSE <<>>]
              /\ rawFile = Put(<<>>, "gramore", r.products)
    /\ normFile = <<>>
    /\ catalogFile = <<>>
    /\ auditLog = <<>>
    /\ pipe = Idle
    /\ extracts = 1
    /\ last = Outcome("extract", "gramore", "ok", FALSE, FALSE)
    /\ config = AllConsenting
    /\ mainRun = NotRunning
    /\ procs = NoProcesses

RerunStage ==
    \/ \E s \in ScriptSuppliers : Transform(s, 0, FALSE) /\ UNCHANGED mainRun
    \/ \E s \in ScriptSuppliers : Integrate(s, 0, FALSE) /\ UNCHANGED mainRun

NextRerun == RerunStage \/ Tick

SpecRerun == InitRerun /\ [][NextRerun]_vars

(***************************************************************************)
(* The price calculation on its own (SpecPrice): _calculate_final_price    *)
(* called with a base price, a margin and a shipping cost, and             *)
(* _normalize_product called on a raw record with that base price.         *)
(***************************************************************************)
MaxBase == 30

\* base prices: the smallest amounts, below and above one cent, and the two
\* prices of the raw records
BasePrices == 0..MaxBase \cup {20000, 25000}
\* margins in percent
Margins == {0, default_margin}
ShippingCosts == {0, default_shipping}

InitPrice ==
    /\ now = 0
    /\ ledger = [s \in Suppliers |-> <<>>]
    /\ rawFile = <<>>
    /\ normFile = <<>>
    /\ catalogFile = <<>>
    /\ auditLog = <<>>
    /\ pipe = Idle
    /\ extracts = 0
    /\ config = AllConsenting
    /\ mainRun = NotRunning
    /\ procs = NoProcesses
    /\ \E base_price \in BasePrices, margin \in Margins, shipping \in ShippingCosts :
          last = [op |-> "init", base_price |-> base_price, margin |-> margin,
                  shipping |-> shipping]

CalculateFinalPrice ==
    /\ last.op = "init"
    /\ last' = [op |-> "_calculate_final_price", base_price |-> last.base_price,
                margin |-> last.margin, shipping |-> last.shipping,
                final |-> _calculate_final_price(last.base_price, last.margin,
                                                 last.shipping)]
    /\ UNCHANGED <<ledger, rawFile, normFile, catalogFile, auditLog, pipe, extracts,
                   now, config, mainRun, procs>>

NormalizeProduct ==
    /\ last.op = "init"
    /\ last' = [op |-> "_normalize_product", base_price |-> last.base_price,
                product |-> _normalize_product("gramore",
                                [supplier_product_id |-> "X1", name |-> "Quinoa",
                                 price |-> last.base_price])]
    /\ UNCHANGED <<ledger, rawFile, normFile, catalogFile, auditLog, pipe, extracts,
                   now, config, mainRun, procs>>

NextPrice == CalculateFinalPrice \/ NormalizeProduct

SpecPrice == InitPrice /\ [][NextPrice]_vars

(***************************************************************************)
(* A reader of a ledger that a writer is appending to (SpecReaders).  The  *)
(* writer is a pipeline run of gramore, one _write_log at a time; the      *)
(* reader is a ComplianceAuditor in another process, one line of           *)
(* _read_logs at a time.                                                   *)
(***************************************************************************)
\* the entries a pipeline run for batch appends to a new ledger, in order
PipelineEntries(supplier_id, batch) ==
    LET e == extract(supplier_id, TRUE, batch, <<>>, 0)
        t == transform(supplier_id, e.products, e.log, 0)
    IN  integrate_supplier(supplier_id, t.out, _load_catalog(<<>>), t.log, 0).log

ReaderOps == {"audit_supplier", "verify_traceability", "check_retention_policy"}

InitReaders ==
    /\ now = 0
    /\ ledger = [s \in Suppliers |-> <<>>]
    /\ rawFile = <<>>
    /\ normFile = <<>>
    /\ catalogFile = <<>>
    /\ auditLog = <<>>
    /\ pipe = Idle
    /\ extracts = 0
    /\ last = Outcome("init", "none", "ok", FALSE, FALSE)
    /\ config = AllConsenting
    /\ mainRun = NotRunning
    /\ \E batch \in RawBatches :
          procs = [writer |-> [sup |-> "gramore",
                               pending |-> PipelineEntries("gramore", batch)],
                   reader |-> [pc |-> "idle"]]

\* the writer's next _write_log, at the time of the clock
WriterAppend ==
    /\ procs.writer.pending # <<>>
    /\ LET s == procs.writer.sup
           log_entry == [Head(procs.writer.pending) EXCEPT !.timestamp = Timestamp(utcnow)]
       IN  /\ ledger' = [ledger EXCEPT ![s] = _write_log(Writer(@), log_entry, 0).log]
           /\ last' = Outcome("_write_log", s, "ok", FALSE, FALSE)
    /\ procs' = [procs EXCEPT !.writer.pending = Tail(@)]
    /\ UNCHANGED <<rawFile, normFile, catalogFile, auditLog, pipe, extracts, now,
                   config, mainRun>>

\* the reader's call begins: without the ledger file it returns at once,
\* else it opens the file
ReaderCall(op, s) ==
    /\ procs.reader.pc \in {"idle", "returned"}
    /\ procs' = [procs EXCEPT !.reader =
                    IF ledger[s] = <<>>
                    THEN [pc |-> "returned", op |-> op, sup |-> s, logs |-> <<>>,
                          result |-> CASE op = "audit_supplier" -> audit_supplier(<<>>, s)
                                       [] op = "verify_traceability" ->
                                              verify_traceability(<<>>, _generate_product_id(s, "X1"), s)
                                       [] OTHER -> check_retention_policy(<<>>).report]
                    ELSE [pc |-> "reading", op |-> op, sup |-> s, logs |-> <<>>]]
    /\ last' = Outcome(op, s, "ok", FALSE, FALSE)
    /\ UNCHANGED <<ledger, rawFile, normFile, catalogFile, auditLog, pipe, extracts,
                   now, config, mainRun>>

\* the reader reads the next line of the file
ReaderReadLine ==
    /\ procs.reader.pc = "reading"
    /\ Len(procs.reader.logs) < Len(ledger[procs.reader.sup])
    /\ procs' = [procs EXCEPT !.reader.logs = _read_logs(ledger[procs.reader.sup], @)]
    /\ last' = Outcome("_read_logs", procs.reader.sup, "ok", FALSE, FALSE)
    /\ UNCHANGED <<ledger, rawFile, normFile, catalogFile, auditLog, pipe, extracts,
                   now, config, mainRun>>

\* the reader finds the end of the file and computes its result from what
\* it has read; audit_supplier saves its report
ReaderReturn ==
    /\ procs.reader.pc = "reading"
    /\ Len(procs.reader.logs) = Len(ledger[procs.reader.sup])
    /\ LET s == procs.reader.sup
           op == procs.reader.op
           logs == procs.reader.logs
           result == CASE op = "audit_supplier" -> audit_supplier(logs, s)
                       [] op = "verify_traceability" ->
                              verify_traceability(logs, _generate_product_id(s, "X1"), s)
                       [] OTHER -> check_retention_policy([f \in {s} |-> logs]).report
       IN  /\ procs' = [procs EXCEPT !.reader = [pc |-> "returned", op |-> op, sup |-> s,
                                                 logs |-> logs, result |-> result]]
           /\ auditLog' = IF op = "audit_supplier" /\ Len(auditLog) < MaxAudits
                          THEN Append(auditLog, result) ELSE auditLog
           /\ last' = Outcome(op, s, IF "raised" \in DOMAIN result THEN "error" ELSE "ok",
                              FALSE, FALSE)
    /\ UNCHANGED <<ledger, rawFile, normFile, catalogFile, pipe, extracts, now,
                   config, mainRun>>

\* the clock moves past one retention period
ClockTick == Tick /\ now' = log_retention_days + 1

NextReaders ==
    \/ WriterAppend
    \/ \E op \in ReaderOps : ReaderCall(op, "gramore")
    \/ ReaderReadLine
    \/ ReaderReturn
    \/ ClockTick

SpecReaders == InitReaders /\ [][NextReaders]_vars

(***************************************************************************)
(* CatalogManager instances in processes of their own (SpecManagers): m1   *)
(* integrates gramore, m2 integrates elmar, and a reader constructs a      *)
(* CatalogManager to look at the persisted catalog.  A manager's steps are *)
(* its constructor, the start of integrate_supplier (load the normalized   *)
(* file, remove the supplier's old products), one step per product of the  *)
(* loop, _update_metadata with the open() of _save_catalog, and the end of *)
(* _save_catalog.                                                          *)
(***************************************************************************)
Managers == {"m1", "m2"}

SupplierOf(m) == IF m = "m1" THEN "gramore" ELSE "elmar"

\* the batch of an earlier pipeline run of every supplier
EarlierBatch == <<[supplier_product_id |-> "X1", name |-> "Quinoa", price |-> 20000]>>

\* the batches the sources deliver for the run whose integrate is modelled
BatchesOf(supplier_id) == IF supplier_id = "gramore" THEN RawBatches ELSE ScriptBatches

\* the ledger, raw file and normalized file of a supplier after extract and
\* transform of batch, begun with ledger log
Transformed(supplier_id, batch, log) ==
    LET e == extract(supplier_id, TRUE, batch, log, 0)
        t == transform(supplier_id, e.products, e.log, 0)
    IN  [log |-> t.log, raw |-> e.products, out |-> t.out]

\* the ledgers and the catalog file after earlier pipeline runs of gramore
\* and then elmar on EarlierBatch
EarlierRuns ==
    LET g == Transformed("gramore", EarlierBatch, <<>>)
        gi == integrate_supplier("gramore", g.out, _load_catalog(<<>>), g.log, 0)
        e == Transformed("elmar", EarlierBatch, <<>>)
        ei == integrate_supplier("elmar", e.out, gi.catalog, e.log, 0)
    IN  [ledger |-> [s \in Suppliers |-> IF s = "gramore" THEN gi.log ELSE ei.log],
         catalogFile |-> <<ei.catalog>>]

NoEarlierRuns == [ledger |-> [s \in Suppliers |-> <<>>], catalogFile |-> <<>>]

InitManagers ==
    /\ now = 0
    /\ \E earlier \in {NoEarlierRuns, EarlierRuns} :
       \E g \in BatchesOf("gramore"), e \in BatchesOf("elmar") :
          LET t == [s \in Suppliers |->
                      Transformed(s, IF s = "gramore" THEN g ELSE e, earlier.ledger[s])]
          IN  /\ ledger = [s \in Suppliers |-> t[s].log]
              /\ rawFile = [s \in Suppliers |-> t[s].raw]
              /\ normFile = [s \in Suppliers |-> t[s].out]
              /\ catalogFile = earlier.catalogFile
    /\ auditLog = <<>>
    /\ pipe = Idle
    /\ extracts = 0
    /\ last = Outcome("init", "none", "ok", FALSE, FALSE)
    /\ config = AllConsenting
    /\ mainRun = NotRunning
    /\ procs = [m \in Managers \cup {"reader"} |-> [pc |-> "start"]]

Files == <<rawFile, normFile, auditLog, pipe, extracts, now, config, mainRun>>

\* CatalogManager(): the constructor loads the catalog file; loaded is the
\* file it has read
Construct(m) ==
    /\ procs[m].pc = "start"
    /\ LET catalog == _load_catalog(catalogFile)
       IN  /\ procs' = [procs EXCEPT ![m] =
                          IF "raised" \in DOMAIN catalog
                          THEN [pc |-> "raised", raised |-> catalog.raised]
                          ELSE [pc |-> "constructed", catalog |-> catalog,
                                loaded |-> catalogFile]]
           /\ last' = Outcome("CatalogManager", SupplierOf(m),
                              IF "raised" \in DOMAIN catalog THEN "error" ELSE "ok",
                              FALSE, FALSE)
    /\ UNCHANGED <<ledger, catalogFile>>
    /\ UNCHANGED Files

\* integrate_supplier begins: the normalized products are loaded and the
\* supplier's old products leave the manager's catalog; before is the
\* supplier's products in the catalog file at this moment
BeginIntegrate(m) ==
    /\ procs[m].pc = "constructed"
    /\ SupplierOf(m) \in DOMAIN normFile
    /\ LET s == SupplierOf(m)
           persisted == _load_catalog(catalogFile)
       IN  procs' = [procs EXCEPT ![m] =
                       [pc |-> "indexing", loaded |-> procs[m].loaded,
                        products |-> normFile[s],
                        before |-> IF "raised" \in DOMAIN persisted THEN <<>>
                                   ELSE SupplierProducts(persisted.products, s),
                        i |-> 1,
                        catalog |-> [procs[m].catalog EXCEPT
                                        !.products = RemoveSupplier(@, s)]]]
    /\ last' = Outcome("integrate_supplier", SupplierOf(m), "ok", FALSE, FALSE)
    /\ UNCHANGED <<ledger, catalogFile>>
    /\ UNCHANGED Files

\* one turn of the loop: index product i, then log it
IndexProduct(m) ==
    /\ procs[m].pc = "indexing"
    /\ procs[m].i <= Len(procs[m].products)
    /\ LET s == SupplierOf(m)
           product == procs[m].products[procs[m].i]
       IN  /\ ledger' = [ledger EXCEPT ![s] =
                            log_catalog_integration(Writer(@), s, product.id,
                                                    product.id, 0).log]
           /\ procs' = [procs EXCEPT ![m].catalog.products = Append(@, product),
                                     ![m].i = @ + 1]
    /\ last' = Outcome("log_catalog_integration", SupplierOf(m), "ok", FALSE, FALSE)
    /\ UNCHANGED catalogFile
    /\ UNCHANGED Files

\* after the loop: _update_metadata, then _save_catalog opens the file
BeginSave(m) ==
    /\ procs[m].pc = "indexing"
    /\ procs[m].i > Len(procs[m].products)
    /\ procs' = [procs EXCEPT ![m].catalog = _update_metadata(@),
                              ![m].pc = "saving"]
    /\ catalogFile' = <<Truncated>>
    /\ last' = Outcome("_save_catalog", SupplierOf(m), "open", FALSE, FALSE)
    /\ UNCHANGED ledger
    /\ UNCHANGED Files

\* json.dump has written the manager's catalog and the file is closed;
\* integrate_supplier returns
EndSave(m) ==
    /\ procs[m].pc = "saving"
    /\ catalogFile' = <<procs[m].catalog>>
    /\ procs' = [procs EXCEPT ![m].pc = "returned"]
    /\ last' = Outcome("_save_catalog", SupplierOf(m), "ok", FALSE, FALSE)
    /\ UNCHANGED ledger
    /\ UNCHANGED Files

Integrating(m) == procs[m].pc \in {"indexing", "saving"}

\* the reader loads the catalog from storage; during is the managers that
\* are inside integrate_supplier at this moment
ReaderLoad ==
    /\ procs' = [procs EXCEPT !["reader"] =
                    [pc |-> "loaded", observed |-> _load_catalog(catalogFile),
                     during |-> {m \in Managers : Integrating(m)}]]
    /\ last' = Outcome("reader", "none",
                       IF "raised" \in DOMAIN _load_catalog(catalogFile) THEN "error" ELSE "ok",
                       FALSE, FALSE)
    /\ UNCHANGED <<ledger, catalogFile>>
    /\ UNCHANGED Files

NextManagers ==
    \/ \E m \in Managers : Construct(m)
    \/ \E m \in Managers : BeginIntegrate(m)
    \/ \E m \in Managers : IndexProduct(m)
    \/ \E m \in Managers : BeginSave(m)
    \/ \E m \in Managers : EndSave(m)
    \/ ReaderLoad

SpecManagers == InitManagers /\ [][NextManagers]_vars

(***************************************************************************)
(* The catalog with a supplier of any id (SpecCatalog).  ProductTransformer*)
(* and CatalogManager.integrate_supplier take any supplier_id: after the   *)
(* earlier runs of gramore and elmar, or before any run, a supplier "acme" *)
(* has a raw file and is transformed and integrated.                       *)
(***************************************************************************)
OtherSupplier == "acme"

InitCatalog ==
    /\ now = 0
    /\ \E earlier \in {NoEarlierRuns, EarlierRuns} :
          /\ ledger = [s \in Suppliers \cup {OtherSupplier} |->
                          IF s \in Suppliers THEN earlier.ledger[s] ELSE <<>>]
          /\ catalogFile = earlier.catalogFile
    /\ \E batch \in RawBatches : rawFile = Put(<<>>, OtherSupplier, batch)
    /\ normFile = <<>>
    /\ auditLog = <<>>
    /\ pipe = Idle
    /\ extracts = 0
    /\ last = Outcome("init", "none", "ok", FALSE, FALSE)
    /\ config = AllConsenting
    /\ mainRun = NotRunning
    /\ procs = NoProcesses

CatalogStage ==
    \/ Transform(OtherSupplier, 0, FALSE) /\ UNCHANGED mainRun
    \/ Integrate(OtherSupplier, 0, FALSE) /\ UNCHANGED mainRun

NextCatalog == CatalogStage

SpecCatalog == InitCatalog /\ [][NextCatalog]_vars

(***************************************************************************)
(* The queries of a CatalogManager (SpecQuery): one instance, constructed  *)
(* on the catalog file that runs of gramore and elmar have left, answers   *)
(* search_products and compare_products calls.  A call's arguments are a   *)
(* function of the keyword arguments that were passed; an argument that is *)
(* absent is None.  A list the code builds with a comprehension is a new   *)
(* list; results that was never filtered is the catalog's own list.        *)
(***************************************************************************)
UpperCase == "ABCDEFGHIJKLMNOPQRSTUVWXYZ"

LowerCase == "abcdefghijklmnopqrstuvwxyz"

\* str.lower() of one character
LowerChar(c) ==
    IF \E i \in 1..Len(UpperCase) : SubSeq(UpperCase, i, i) = c
    THEN LET i == CHOOSE j \in 1..Len(UpperCase) : SubSeq(UpperCase, j, j) = c
         IN  SubSeq(LowerCase, i, i)
    ELSE c

\* text.lower()
RECURSIVE lower(_)
lower(text) ==
    IF text = "" THEN ""
    ELSE LowerChar(SubSeq(text, 1, 1)) \o lower(SubSeq(text, 2, Len(text)))

\* needle in text, of two str
StrIn(needle, text) ==
    \/ needle = ""
    \/ \E i \in 1..(Len(text) - Len(needle) + 1) :
            SubSeq(text, i, i + Len(needle) - 1) = needle

\* the test of the text filter: the query in the name, the brand or the category
MatchesQuery(p, query) ==
    LET query_lower == lower(query)
    IN  \/ StrIn(query_lower, lower(p.name))
        \/ StrIn(query_lower, lower(p.brand))
        \/ StrIn(query_lower, lower(p.category))

\* search_products(**args): results is the list it returns, own is TRUE when
\* that list is the self.catalog["products"] object itself
search_products(catalog, args) ==
    LET by_query == "query" \in DOMAIN args /\ args.query # ""
        by_category == "category" \in DOMAIN args /\ args.category # ""
        by_supplier == "supplier" \in DOMAIN args /\ args.supplier # ""
        by_min == "min_price" \in DOMAIN args
        by_max == "max_price" \in DOMAIN args
        r0 == catalog.products
        r1 == IF by_query THEN SelectSeq(r0, LAMBDA p : MatchesQuery(p, args.query)) ELSE r0
        r2 == IF by_category THEN SelectSeq(r1, LAMBDA p : p.category = args.category) ELSE r1
        r3 == IF by_supplier THEN SelectSeq(r2, LAMBDA p : p.supplier = args.supplier) ELSE r2
        r4 == IF by_min THEN SelectSeq(r3, LAMBDA p : p.price.final >= args.min_price) ELSE r3
        r5 == IF by_max THEN SelectSeq(r4, LAMBDA p : p.price.final <= args.max_price) ELSE r4
    IN  [results |-> r5,
         own |-> ~(by_query \/ by_category \/ by_supplier \/ by_min \/ by_max)]

\* list.sort(key=price.final) puts p behind the elements whose key is not
\* greater (the sort is stable)
RECURSIVE InsertByFinal(_, _)
InsertByFinal(sorted, p) ==
    IF sorted = <<>> THEN <<p>>
    ELSE IF sorted[Len(sorted)].price.final <= p.price.final THEN Append(sorted, p)
    ELSE Append(InsertByFinal(SubSeq(sorted, 1, Len(sorted) - 1), p), sorted[Len(sorted)])

\* products.sort(key=lambda p: p["price"]["final"]) on products[i..]
RECURSIVE SortByFinal(_, _, _)
SortByFinal(products, i, sorted) ==
    IF i > Len(products) THEN sorted
    ELSE SortByFinal(products, i + 1, InsertByFinal(sorted, products[i]))

\* compare_products(product_name): results is the list it returns, catalog
\* is the instance's catalog after the call; sort() sorts the list object
\* that search_products returned in place
compare_products(catalog, product_name) ==
    LET similar_products == search_products(catalog, [query |-> product_name])
        sorted == SortByFinal(similar_products.results, 1, <<>>)
    IN  [results |-> sorted,
         catalog |-> IF similar_products.own
                     THEN [catalog EXCEPT !.products = sorted]
                     ELSE catalog]

\* the arguments of the calls
Queries == {"", "CHIA", "i"}

Categories == {"Geral"}

PriceBounds == {41000}

Optional(key, values) == {<<>>} \cup {Put(<<>>, key, v) : v \in values}

Merge(f, g) == [k \in DOMAIN f \cup DOMAIN g |-> IF k \in DOMAIN f THEN f[k] ELSE g[k]]

SearchArgs ==
    {Merge(q, Merge(c, Merge(s, Merge(lo, hi)))) :
        q \in Optional("query", Queries),
        c \in Optional("category", Categories),
        s \in Optional("supplier", {"gramore"}),
        lo \in Optional("min_price", PriceBounds),
        hi \in Optional("max_price", PriceBounds)}

\* the catalog file after pipeline runs of gramore on batch g and then of
\* elmar on batch e, and the instance CatalogManager() constructs on it
InitQuery ==
    /\ now = 0
    /\ \E g \in BatchesOf("gramore"), e \in {<<>>, EarlierBatch} :
       \E gt \in {Transformed("gramore", g, <<>>)}, et \in {Transformed("elmar", e, <<>>)} :
       \E gi \in {integrate_supplier("gramore", gt.out, _load_catalog(<<>>), gt.log, 0)} :
       \E ei \in {integrate_supplier("elmar", et.out, gi.catalog, et.log, 0)} :
              /\ ledger = [s \in Suppliers |-> IF s = "gramore" THEN gi.log ELSE ei.log]
              /\ rawFile = [s \in Suppliers |-> IF s = "gramore" THEN gt.raw ELSE et.raw]
              /\ normFile = [s \in Suppliers |-> IF s = "gramore" THEN gt.out ELSE et.out]
              /\ catalogFile = <<ei.catalog>>
    /\ auditLog = <<>>
    /\ pipe = Idle
    /\ extracts = 0
    /\ last = Outcome("init", "none", "ok", FALSE, FALSE)
    /\ config = AllConsenting
    /\ mainRun = NotRunning
    /\ procs = [menu |-> [catalog |-> _load_catalog(catalogFile),
                          call |-> "CatalogManager", args |-> <<>>,
                          returned |-> <<>>]]

\* catalog.search_products(**args) on the instance
SearchProducts(args) ==
    /\ procs' = [procs EXCEPT !.menu.call = "search_products",
                              !.menu.args = args,
                              !.menu.returned = search_products(procs.menu.catalog, args).results]
    /\ last' = Outcome("search_products", "none", "ok", FALSE, FALSE)
    /\ UNCHANGED <<ledger, catalogFile>>
    /\ UNCHANGED Files

\* catalog.compare_products(product_name) on the instance
CompareProducts(product_name) ==
    /\ LET r == compare_products(procs.menu.catalog, product_name)
       IN  procs' = [procs EXCEPT !.menu.call = "compare_products",
                                  !.menu.args = [product_name |-> product_name],
                                  !.menu.returned = r.results,
                                  !.menu.catalog = r.catalog]
    /\ last' = Outcome("compare_products", "none", "ok", FALSE, FALSE)
    /\ UNCHANGED <<ledger, catalogFile>>
    /\ UNCHANGED Files

NextQuery ==
    \/ \E args \in SearchArgs : SearchProducts(args)
    \/ \E product_name \in Queries : CompareProducts(product_name)

SpecQuery == InitQuery /\ [][NextQuery]_vars

(***************************************************************************)
(* Properties.                                                             *)
(***************************************************************************)
\* the catalog a CatalogManager constructed now would hold
Catalog == _load_catalog(catalogFile)

Count(seq, Test(_)) == Cardinality({i \in DOMAIN seq : Test(seq[i])})

IsValidRecord(s, r) == Assembles(r) /\ SchemaAccepts(_normalize_product(s, r))

IsInvalidRecord(s, r) == Assembles(r) /\ ~SchemaAccepts(_normalize_product(s, r))

IsOp(e, op) == Get(e, "operation", "unknown") = op

\* C1: after a pipeline run (extract, transform, integrate) that ended without
\* error, verify_traceability reports every catalog product of that supplier
\* traceable.
C1_IntegratedIsTraceable ==
    (last.op = "integrate" /\ last.piped /\ last.status = "ok") =>
        \A i \in DOMAIN Catalog.products :
            Catalog.products[i].supplier = last.sup =>
                verify_traceability(ledger[last.sup], Catalog.products[i].id,
                                    last.sup).traceable

\* C2: integrate called for a supplier right after a successful integrate of
\* the same supplier (so with the same normalized batch) leaves the catalog
\* document, its product list and its counts, as it was.
C2_IdempotentIntegration ==
    [][(/\ last.op = "integrate" /\ last.status = "ok"
        /\ last'.op = "integrate" /\ last'.status = "ok"
        /\ last'.sup = last.sup)
       => /\ catalogFile' = catalogFile
          /\ Catalog.products = Catalog'.products
          /\ Catalog.metadata = Catalog'.metadata]_vars

\* the last n entries of the ledger are catalog_integration entries
EndsWithIntegrations(log, n) ==
    /\ Len(log) >= n
    /\ \A i \in (Len(log) - n + 1)..Len(log) : IsOp(log[i], "catalog_integration")

\* a non-empty batch was integrated twice in a row into a catalog that also
\* holds another supplier's products
C2_Witness ==
    /\ last.op = "integrate" /\ last.status = "ok"
    /\ last.sup \in DOMAIN normFile
    /\ normFile[last.sup] # <<>>
    /\ EndsWithIntegrations(ledger[last.sup], 2 * Len(normFile[last.sup]))
    /\ \E i \in DOMAIN Catalog.products : Catalog.products[i].supplier # last.sup

\* C3: after a successful integrate(s) the catalog records of supplier s are
\* exactly the records of the normalized batch, in batch order.
C3_SupplierSetReplaced ==
    (last.op = "integrate" /\ last.status = "ok") =>
        SupplierProducts(Catalog.products, last.sup) = normFile[last.sup]

\* a product integrated before with base price 20.00 was integrated again
\* with base price 25.00: one record, final price 47.50
C3_Witness ==
    /\ last.op = "integrate" /\ last.status = "ok"
    /\ Len(SupplierProducts(Catalog.products, last.sup)) = 1
    /\ SupplierProducts(Catalog.products, last.sup)[1].price.base = 25000
    /\ SupplierProducts(Catalog.products, last.sup)[1].price.final = 47500
    /\ Count(ledger[last.sup], LAMBDA e : IsOp(e, "catalog_integration")) = 2
    /\ \E i \in DOMAIN ledger[last.sup] :
          /\ IsOp(ledger[last.sup][i], "transformation")
          /\ ledger[last.sup][i].normalized_hash[2].price.base = 20000

\* C4: the catalog holds at most one record per (supplier, supplier_product_id).
C4_OneRecordPerKey ==
    \A i, j \in DOMAIN Catalog.products :
        (/\ Catalog.products[i].supplier = Catalog.products[j].supplier
         /\ Catalog.products[i].supplier_product_id = Catalog.products[j].supplier_product_id)
        => i = j

\* C5: every step leaves each ledger a prefix of what it is afterwards.
C5_LedgerAppendOnly ==
    [][\A s \in Suppliers : IsPrefix(ledger[s], ledger'[s])]_vars

\* the auditor has read a ledger that the three stages had written to
C5_Witness ==
    /\ last.op = "audit_supplier"
    /\ auditLog # <<>>
    /\ \A op \in RequiredOperations :
          \E i \in DOMAIN ledger[last.sup] : IsOp(ledger[last.sup][i], op)

\* C6: a stage in which a ledger append failed ended with an error.
C6_AppendFailureIsFatal ==
    last.io_failed => last.status = "error"

\* a step that is a call of transform() for supplier s that returned
TransformStep(s) ==
    last'.op = "transform" /\ last'.status = "ok" /\ last'.sup = s

\* C7: for every raw record whose normalized form the schema rejects,
\* transform appends one validation entry with valid = false and errors and
\* no transformation entry, leaves the record out of the output, and still
\* processes the records after it.
C7_InvalidRecordLoggedAndSkipped ==
    [][\A s \in Suppliers : TransformStep(s) =>
        LET new == Suffix(ledger[s], ledger'[s])
            raw == rawFile[s]
        IN  /\ IsPrefix(ledger[s], ledger'[s])
            /\ Count(new, LAMBDA e : /\ IsOp(e, "validation")
                                     /\ e.valid = FALSE
                                     /\ e.errors # <<>>)
                 = Count(raw, LAMBDA r : IsInvalidRecord(s, r))
            /\ Count(new, LAMBDA e : IsOp(e, "validation") /\ e.valid = FALSE)
                 = Count(raw, LAMBDA r : IsInvalidRecord(s, r))
            /\ Count(new, LAMBDA e : IsOp(e, "transformation"))
                 = Count(raw, LAMBDA r : IsValidRecord(s, r))
            /\ \A i \in DOMAIN raw :
                  (/\ IsInvalidRecord(s, raw[i])
                   /\ \A j \in DOMAIN raw :
                         IsValidRecord(s, raw[j]) =>
                            raw[j].supplier_product_id # raw[i].supplier_product_id)
                  => \A k \in DOMAIN new :
                        IsOp(new[k], "transformation") =>
                            new[k].product_id #
                              _generate_product_id(s, raw[i].supplier_product_id)
            /\ \A k \in DOMAIN normFile'[s] : SchemaAccepts(normFile'[s][k])
            /\ Len(normFile'[s]) = Count(raw, LAMBDA r : IsValidRecord(s, r))]_vars

\* transform has processed a batch with an invalid record before a valid one
C7_Witness ==
    /\ last.op = "transform" /\ last.status = "ok"
    /\ \E i, j \in DOMAIN rawFile[last.sup] :
          /\ i < j
          /\ IsInvalidRecord(last.sup, rawFile[last.sup][i])
          /\ IsValidRecord(last.sup, rawFile[last.sup][j])
    /\ normFile[last.sup] # <<>>
    /\ \E k \in DOMAIN ledger[last.sup] :
          IsOp(ledger[last.sup][k], "validation") /\ ~ledger[last.sup][k].valid

\* C8: for every raw record whose normalized form is valid, transform appends
\* a transformation entry directly followed by a validation entry with
\* valid = true, both with the canonical product id, and the record is in the
\* output.
C8_ValidRecordLoggedInOrder ==
    [][\A s \in Suppliers : TransformStep(s) =>
        LET new == Suffix(ledger[s], ledger'[s])
            valid == SelectSeq(rawFile[s], LAMBDA r : IsValidRecord(s, r))
            transformations == SelectSeq(new, LAMBDA e : IsOp(e, "transformation"))
        IN  /\ \A i \in DOMAIN new :
                  IsOp(new[i], "transformation") =>
                     /\ i + 1 \in DOMAIN new
                     /\ IsOp(new[i + 1], "validation")
                     /\ new[i + 1].valid = TRUE
                     /\ new[i + 1].product_id = new[i].product_id
            /\ \A i \in DOMAIN new :
                  (IsOp(new[i], "validation") /\ new[i].valid) =>
                     /\ i - 1 \in DOMAIN new
                     /\ IsOp(new[i - 1], "transformation")
            /\ Len(transformations) = Len(valid)
            /\ \A k \in DOMAIN valid :
                  /\ transformations[k].product_id =
                        _generate_product_id(s, valid[k].supplier_product_id)
                  /\ \E j \in DOMAIN normFile'[s] :
                        normFile'[s][j] = _normalize_product(s, valid[k])]_vars

\* transform has processed a batch of two valid records
C8_Witness ==
    /\ last.op = "transform" /\ last.status = "ok"
    /\ Len(rawFile[last.sup]) = 2
    /\ \A i \in DOMAIN rawFile[last.sup] : IsValidRecord(last.sup, rawFile[last.sup][i])
    /\ Len(normFile[last.sup]) = 2
    /\ Len(ledger[last.sup]) >= 4
    /\ IsOp(ledger[last.sup][Len(ledger[last.sup])], "validation")
    /\ IsOp(ledger[last.sup][Len(ledger[last.sup]) - 1], "transformation")

\* the canonical products of the raw records that assemble and pass validation
ExpectedOutput(s, raw) ==
    LET valid == SelectSeq(raw, LAMBDA r : IsValidRecord(s, r))
    IN  [k \in 1..Len(valid) |-> _normalize_product(s, valid[k])]

\* C9: the normalized batch transform saves and returns is the canonical
\* products of exactly the raw records that assemble and pass validation, in
\* input order.
C9_OutputIsValidRecordsInOrder ==
    (last.op = "transform" /\ last.status = "ok") =>
        normFile[last.sup] = ExpectedOutput(last.sup, rawFile[last.sup])

\* transform has processed a batch with a record that fails in assembly
\* before a valid one
C9_Witness ==
    /\ last.op = "transform" /\ last.status = "ok"
    /\ \E i, j \in DOMAIN rawFile[last.sup] :
          /\ i < j
          /\ ~Assembles(rawFile[last.sup][i])
          /\ IsValidRecord(last.sup, rawFile[last.sup][j])
    /\ Len(normFile[last.sup]) = 1

\* C10: a failed extract of a pipeline run has appended an extraction entry
\* with status = error, ends the run (no transform, no integrate) and leaves
\* the normalized batch and the catalog as they were.
C10_ExtractionErrorLoggedAndFatal ==
    [][/\ \A s \in Suppliers :
            (/\ last'.op = "extract" /\ last'.status = "error"
             /\ last'.piped /\ last'.sup = s)
            => /\ IsPrefix(ledger[s], ledger'[s])
               /\ Len(ledger'[s]) > Len(ledger[s])
               /\ IsOp(ledger'[s][Len(ledger'[s])], "extraction")
               /\ ledger'[s][Len(ledger'[s])].status = "error"
               /\ pipe' = Idle
               /\ normFile' = normFile
               /\ catalogFile' = catalogFile
       /\ (last.op = "extract" /\ last.status = "error")
            => ~(last'.piped /\ last'.op \in {"transform", "integrate"})]_vars

\* the extract of a pipeline run failed for a supplier with catalog records
C10_Witness ==
    /\ last.op = "extract" /\ last.status = "error" /\ last.piped
    /\ \E i \in DOMAIN Catalog.products : Catalog.products[i].supplier = last.sup

\* the suppliers main() has a result for: the active suppliers of
\* suppliers.json, in the order of the extractors
Configured == SelectSeq(extractors, LAMBDA s : s \in suppliers_map)

\* C11: in main() of run_all_pipelines.py a stage of one supplier's pipeline
\* that fails ends that pipeline with an "error" result and the loop goes on
\* to the next extractor; the run is never aborted, and when it has printed
\* its summary every configured supplier has its result, in order: "skipped"
\* exactly for those without consent, and for the others the result of a
\* pipeline that ran ("success" with the supplier's batch transformed and
\* integrated, or "error").
C11_FailureDoesNotAbortRun ==
    [][/\ mainRun'.pos # Aborted
       /\ (/\ mainRun.pos \in DOMAIN extractors
           /\ last'.piped
           /\ last'.status = "error")
          => /\ mainRun'.pos = mainRun.pos + 1
             /\ mainRun'.results =
                   Append(mainRun.results, [supplier |-> last'.sup, status |-> "error"])
       /\ mainRun'.pos = Finished
          => /\ mainRun.pos = AtSummary
             /\ Len(mainRun'.results) = Len(Configured)
             /\ \A k \in DOMAIN Configured :
                   LET result == mainRun'.results[k]
                       s == Configured[k]
                   IN  /\ result.supplier = s
                       /\ result.status = "skipped" <=> ~consent_obtained(s)
                       /\ result.status \in {"skipped", "success", "error"}
                       /\ result.status = "success"
                          => /\ s \in DOMAIN rawFile
                             /\ s \in DOMAIN normFile
                             /\ SupplierProducts(Catalog.products, s) = normFile[s]]_vars

\* the run has printed its summary after the pipeline of one supplier failed
\* and the pipeline of a later supplier integrated a product
C11_Witness ==
    /\ mainRun.pos = Finished
    /\ \E i, j \in DOMAIN mainRun.results :
          /\ i < j
          /\ mainRun.results[i].status = "error"
          /\ mainRun.results[j].status = "success"
          /\ SupplierProducts(Catalog.products, mainRun.results[j].supplier) # <<>>



\* C12: in every entry point extract() is called for a supplier only when
\* its consent flag is set; the step that passes over a supplier without
\* consent extracts nothing, leaves every ledger, the raw files and the
\* catalog as they were, and main() goes on to the next extractor.
C12_ExtractOnlyWithConsent ==
    [][/\ extracts' = extracts + 1 => consent_obtained(last'.sup)
       /\ last'.status \in {"skipped", "cancelled"}
          => /\ extracts' = extracts
             /\ ledger' = ledger
             /\ rawFile' = rawFile
             /\ catalogFile' = catalogFile
       /\ last'.status = "skipped" => mainRun'.pos = mainRun.pos + 1]_vars


\* C13: integrate_supplier(s) called when s has no normalized file ends
\* with an error and leaves the catalog its manager holds as it was loaded,
\* and the catalog file and every ledger as they were.
C13_MissingInputChangesNothing ==
    [][\A s \in DOMAIN ledger :
        (last'.op = "integrate" /\ last'.sup = s /\ s \notin DOMAIN normFile)
        => /\ last'.status = "error"
           /\ last'.catalog = _load_catalog(catalogFile)
           /\ catalogFile' = catalogFile
           /\ ledger' = ledger
           /\ normFile' = normFile]_vars

\* integrate_supplier has failed for a supplier without a normalized file
\* while the catalog holds the products of another supplier
C13_Witness ==
    /\ last.op = "integrate" /\ last.status = "error"
    /\ last.sup \notin DOMAIN normFile
    /\ \E i \in DOMAIN Catalog.products : Catalog.products[i].supplier # last.sup


\* the entries of a ledger with status = "success"
Successes(log) == Count(log, LAMBDA e : Get(e, "status", "") = "success")

\* the report audit_supplier has just appended to the audit log
LastReport == auditLog[Len(auditLog)]

\* C14: the report of an audit of a ledger that exists says "compliant"
\* exactly when successes/total >= 0.95, and otherwise "warning" with a
\* non-empty issues list; 19 successes of 20 are compliant, 18 of 20 a
\* warning.
C14_CompliantFromNinetyFivePercent ==
    (last.op = "audit_supplier" /\ ledger[last.sup] # <<>>) =>
        LET log == ledger[last.sup]
        IN  /\ auditLog # <<>>
            /\ LastReport.supplier = last.sup
            /\ LastReport.compliance_status = "compliant"
               <=> 100 * Successes(log) >= 95 * Len(log)
            /\ LastReport.compliance_status # "compliant"
               => /\ LastReport.compliance_status = "warning"
                  /\ "issues" \in DOMAIN LastReport
                  /\ LastReport.issues # <<>>
            /\ (Len(log) = 20 /\ Successes(log) = 19)
               => LastReport.compliance_status = "compliant"
            /\ (Len(log) = 20 /\ Successes(log) = 18)
               => LastReport.compliance_status = "warning"

\* a ledger of 20 entries, 19 of them successes, was audited and is compliant
C14_Witness ==
    /\ last.op = "audit_supplier"
    /\ Len(ledger[last.sup]) = 20
    /\ Successes(ledger[last.sup]) = 19
    /\ auditLog # <<>>
    /\ LastReport.compliance_status = "compliant"

\* a ledger of 20 entries, 18 of them successes, was audited and is a warning
C14_WitnessWarning ==
    /\ last.op = "audit_supplier"
    /\ Len(ledger[last.sup]) = 20
    /\ Successes(ledger[last.sup]) = 18
    /\ auditLog # <<>>
    /\ LastReport.compliance_status = "warning"


\* C15: every call of audit_supplier, the one that finds no ledger included,
\* appends exactly one entry to the audit log and leaves the earlier entries
\* of the audit log as they were.
C15_EveryAuditIsLogged ==
    [][last'.op = "audit_supplier"
       => /\ Len(auditLog') = Len(auditLog) + 1
          /\ IsPrefix(auditLog, auditLog')]_vars


AuditorOps == {"audit_supplier", "audit_all", "verify_traceability", "check_retention"}

\* C16: a step of the auditor (audit_supplier, audit_all_suppliers,
\* verify_traceability, check_retention_policy) leaves every supplier ledger,
\* the catalog and the raw and normalized files as they were; the retention
\* check removes no entry, however many it counts as old.
C16_AuditorIsReadOnly ==
    [][last'.op \in AuditorOps
       => /\ ledger' = ledger
          /\ catalogFile' = catalogFile
          /\ rawFile' = rawFile
          /\ normFile' = normFile]_vars

\* the retention check has counted two or more old entries in ledgers that
\* still hold them, next to a catalog with products
C16_Witness ==
    /\ last.op = "check_retention"
    /\ last.report.logs_to_archive >= 2
    /\ \E s \in Suppliers :
          Count(ledger[s], LAMBDA e : e.timestamp.iso < now - log_retention_days) >= 2
    /\ Catalog.products # <<>>


\* the operations of the entries of a ledger that carry the product id
OperationsOf(log, product_id) ==
    {log[i].operation : i \in {j \in DOMAIN log : Get(log[j], "product_id", "") = product_id}}

\* C17: verify_traceability does not raise; without a ledger it returns not
\* traceable with the reason "logs not found", with a ledger that has no
\* entry of the product not traceable with the reason "product not found",
\* and otherwise traceable exactly when the entries of the product include
\* an extraction, a transformation, a validation and a catalog_integration.
C17_TraceabilityResult ==
    last.op = "verify_traceability" =>
        LET log == ledger[last.sup]
            found == OperationsOf(log, last.product_id)
            result == last.result
        IN  /\ last.status = "ok"
            /\ "raised" \notin DOMAIN result
            /\ log = <<>>
               => result = [traceable |-> FALSE, reason |-> "Logs nao encontrados"]
            /\ (log # <<>> /\ found = {})
               => result = [traceable |-> FALSE,
                            reason |-> "Produto nao encontrado nos logs"]
            /\ (log # <<>> /\ found # {})
               => /\ "reason" \notin DOMAIN result
                  /\ result.traceable
                     <=> /\ "extraction" \in found
                         /\ "transformation" \in found
                         /\ "validation" \in found
                         /\ "catalog_integration" \in found
                  /\ result.operations_found = found

\* a product with its four operations in the ledger was found traceable
C17_Witness ==
    /\ last.op = "verify_traceability"
    /\ last.result.traceable
    /\ Len(ledger[last.sup]) = MaxTraced
    /\ Cardinality(OperationsOf(ledger[last.sup], last.product_id)) = 4


\* the places of the entries of all ledgers whose timestamp satisfies Test
EntriesAt(Test(_)) ==
    {<<s, i>> \in (DOMAIN ledger) \X (1..MaxLedger) :
        i \in DOMAIN ledger[s] /\ Test(ledger[s][i].timestamp.iso)}

IdsOf(products) == [k \in DOMAIN products |-> products[k].id]

\* every canonical product a normalization run has produced so far: the
\* normalized batches, the catalog's products, and the products the ledger's
\* transformation entries hold the digest of
Normalized ==
    UNION {Range(normFile[s]) : s \in DOMAIN normFile}
        \cup Range(Catalog.products)
        \cup UNION {{e.normalized_hash[2] :
                        e \in {x \in Range(ledger[s]) : IsOp(x, "transformation")}} :
                    s \in Suppliers}

\* C19: canonical ids are deterministic: two canonical products of the same
\* (supplier, supplier_product_id), produced by runs at any times and in any
\* ledger or catalog state, carry the same id; a transform re-run on unchanged
\* raw data saves the ids of the previous run, and an integrate re-run on
\* unchanged raw data leaves the set of the supplier's catalog ids as it was.
C19_CanonicalIdsDeterministic ==
    [][/\ \A p, q \in Normalized' :
              (p.supplier = q.supplier /\ p.supplier_product_id = q.supplier_product_id)
                  => p.id = q.id
       /\ \A s \in ScriptSuppliers :
              /\ (TransformStep(s) /\ s \in DOMAIN normFile /\ rawFile' = rawFile)
                     => IdsOf(normFile'[s]) = IdsOf(normFile[s])
              /\ (/\ last'.op = "integrate" /\ last'.status = "ok" /\ last'.sup = s
                  /\ catalogFile # <<>>
                  /\ rawFile' = rawFile)
                     => Range(IdsOf(SupplierProducts(Catalog'.products, s)))
                            = Range(IdsOf(SupplierProducts(Catalog.products, s)))]_vars

\* transform and integrate have been re-run at a later time on the raw data of
\* an earlier run: the ledger holds two products of the same key made at
\* different times, and the catalog holds the later one
C19_Witness ==
    /\ last.op = "integrate" /\ last.status = "ok"
    /\ now > 0
    /\ \E p \in Range(SupplierProducts(Catalog.products, last.sup)) :
          /\ p.created_at = Timestamp(now)
          /\ \E q \in Normalized :
                /\ q.supplier = p.supplier
                /\ q.supplier_product_id = p.supplier_product_id
                /\ q.created_at = Timestamp(0)
    /\ Count(ledger[last.sup], LAMBDA e : IsOp(e, "catalog_integration")) >= 2


StageOf(e) ==
    IF IsOp(e, "extraction") THEN 1
    ELSE IF IsOp(e, "transformation") \/ IsOp(e, "validation") THEN 2
    ELSE IF IsOp(e, "catalog_integration") THEN 3
    ELSE 0

\* a step of stage op of a pipeline run for supplier s
PipedStep(op, s) == last'.op = op /\ last'.piped /\ last'.sup = s

\* C21: the stages of one pipeline run follow one another with no other call
\* between them, and each stage appends only entries of its own kind: the
\* extract only extraction entries, the transform after it only
\* transformation and validation entries, the integrate after that only
\* catalog_integration entries; so every extraction entry of the run precedes
\* every transformation or validation entry, and these precede every
\* catalog_integration entry.
C21_StagesRunToCompletion ==
    [][\A s \in Suppliers :
          LET new == Suffix(ledger[s], ledger'[s])
          IN  /\ PipedStep("extract", s) =>
                    /\ IsPrefix(ledger[s], ledger'[s])
                    /\ \A i \in DOMAIN new : StageOf(new[i]) = 1
              /\ PipedStep("transform", s) =>
                    /\ last.op = "extract" /\ last.piped /\ last.sup = s
                    /\ last.status = "ok"
                    /\ IsPrefix(ledger[s], ledger'[s])
                    /\ \A i \in DOMAIN new : StageOf(new[i]) = 2
              /\ PipedStep("integrate", s) =>
                    /\ last.op = "transform" /\ last.piped /\ last.sup = s
                    /\ last.status = "ok"
                    /\ IsPrefix(ledger[s], ledger'[s])
                    /\ \A i \in DOMAIN new : StageOf(new[i]) = 3]_vars

\* a pipeline run of two valid records has ended: its eight entries are two
\* of the extract, then four of the transform, then two of the integrate
C21_Witness ==
    /\ last.op = "integrate" /\ last.piped /\ last.status = "ok"
    /\ Len(ledger[last.sup]) = 8
    /\ [i \in 1..8 |-> StageOf(ledger[last.sup][i])] = <<1, 1, 2, 2, 2, 2, 3, 3>>


\* C22: while one writer appends whole lines to a supplier's ledger, the
\* ledger only grows at its end, what a reader (audit_supplier,
\* verify_traceability or check_retention_policy) has read is at every moment
\* a prefix of the ledger's entries, and hence of its final entries, and the
\* reader's call does not raise.
C22_ConcurrentReaderReadsPrefix ==
    [][/\ \A s \in Suppliers : IsPrefix(ledger[s], ledger'[s])
       /\ procs'.reader.pc \in {"reading", "returned"} =>
             /\ IsPrefix(procs'.reader.logs, ledger'[procs'.reader.sup])
             /\ procs'.reader.pc = "returned" =>
                   "raised" \notin DOMAIN procs'.reader.result]_vars

\* a reader has returned a result computed from a proper, non-empty prefix:
\* the writer appended while the reader was reading and after it returned
C22_Witness ==
    /\ "reader" \in DOMAIN procs
    /\ procs.reader.pc = "returned"
    /\ procs.reader.logs # <<>>
    /\ Len(procs.reader.logs) < Len(ledger[procs.reader.sup])
    /\ procs.writer.pending # <<>>
    /\ IsPrefix(procs.reader.logs, ledger[procs.reader.sup])


\* C23: what a reader loads from the catalog file while a manager is inside
\* integrate_supplier(s) is a catalog whose products of s are either the
\* complete set the file held before the call or the complete new batch.
C23_IntegrateIsOneTransaction ==
    procs.reader.pc = "loaded" =>
        \A m \in procs.reader.during :
            /\ "raised" \notin DOMAIN procs.reader.observed
            /\ SupplierProducts(procs.reader.observed.products, SupplierOf(m))
                  \in {procs[m].before, procs[m].products}


\* the suppliers that have products in a product list
SuppliersIn(products) == {products[i].supplier : i \in DOMAIN products}

RECURSIVE SumCounts(_, _)
SumCounts(counts, S) ==
    IF S = {} THEN 0
    ELSE LET s == CHOOSE x \in S : TRUE
         IN  counts[s] + SumCounts(counts, S \ {s})

\* C24: after a successful integrate, of a supplier of any id, the catalog's
\* metadata.total_products is the number of products, every supplier with
\* products in the catalog has its number of products in metadata.suppliers,
\* the per-supplier counts sum to the total, and get_statistics reports the
\* same total and the same per-supplier counts.
C24_MetadataMatchesProducts ==
    (last.op = "integrate" /\ last.status = "ok") =>
        LET products == Catalog.products
            metadata == Catalog.metadata
            stats == get_statistics(Catalog)
        IN  /\ metadata.total_products = Len(products)
            /\ \A s \in SuppliersIn(products) :
                  /\ s \in DOMAIN metadata.suppliers
                  /\ metadata.suppliers[s] = CountSupplier(products, s)
            /\ SumCounts(metadata.suppliers, DOMAIN metadata.suppliers)
                  = metadata.total_products
            /\ stats.total_products = metadata.total_products
            /\ products # <<>> => stats.suppliers = metadata.suppliers


\* the data digests of the extraction entries of a ledger
ExtractionDigests(log) ==
    {log[i].data_hash : i \in {j \in DOMAIN log : IsOp(log[j], "extraction")}}

\* C25: a transform on the raw batch of a completed extract appends
\* transformation entries whose raw_data_hash is the data_hash of an
\* extraction entry that the supplier's ledger held before the transform,
\* and the canonical product of the entry carries the same digest in
\* metadata.hash.
C25_LedgerHashLinked ==
    [][\A s \in Suppliers : TransformStep(s) =>
          LET new == Suffix(ledger[s], ledger'[s])
          IN  \A i \in DOMAIN new :
                  IsOp(new[i], "transformation") =>
                     /\ new[i].raw_data_hash \in ExtractionDigests(ledger[s])
                     /\ \E k \in DOMAIN normFile'[s] :
                           /\ normFile'[s][k].id = new[i].product_id
                           /\ normFile'[s][k].metadata.hash = new[i].raw_data_hash
                           /\ new[i].normalized_hash = _generate_hash(normFile'[s][k])]_vars

\* a transform has appended two transformation entries with different input
\* digests, both logged by the extract before it
C25_Witness ==
    /\ last.op = "transform" /\ last.status = "ok"
    /\ Len(normFile[last.sup]) = 2
    /\ normFile[last.sup][1].metadata.hash # normFile[last.sup][2].metadata.hash
    /\ \A k \in {1, 2} :
          /\ normFile[last.sup][k].metadata.hash \in ExtractionDigests(ledger[last.sup])
          /\ \E i \in DOMAIN ledger[last.sup] :
                /\ IsOp(ledger[last.sup][i], "transformation")
                /\ ledger[last.sup][i].raw_data_hash = normFile[last.sup][k].metadata.hash


\* the products of the suppliers other than s, in catalog order
OtherProducts(products, s) == SelectSeq(products, LAMBDA p : p.supplier # s)

\* C26: a successful integrate of supplier s leaves every catalog record of
\* the other suppliers in the catalog, with the same content and in the same
\* relative order.
C26_IntegrateKeepsOtherSuppliers ==
    [][\A s \in Suppliers :
          (last'.op = "integrate" /\ last'.status = "ok" /\ last'.sup = s) =>
              OtherProducts(Catalog'.products, s) = OtherProducts(Catalog.products, s)]_vars

\* an integrate of a supplier has replaced its products in a catalog that
\* holds a product of another supplier: the other's product is still there,
\* now before the supplier's new products
C26_Witness ==
    /\ last.op = "integrate" /\ last.status = "ok"
    /\ OtherProducts(Catalog.products, last.sup) # <<>>
    /\ SupplierProducts(Catalog.products, last.sup) # <<>>
    /\ Catalog.products[1].supplier # last.sup
    /\ Count(ledger[last.sup], LAMBDA e : IsOp(e, "catalog_integration")) >= 2


\* log is the ledger of one pipeline run on a fresh ledger in which every
\* record was extracted, passed validation and was integrated: for some
\* n >= 1, n successful extraction entries, then n transformation entries
\* each followed by its validation entry with valid = true, then n
\* successful catalog_integration entries
CleanRun(log) ==
    \E n \in 1..MaxBatch :
        /\ Len(log) = 4 * n
        /\ \A i \in 1..n : IsOp(log[i], "extraction") /\ log[i].status = "success"
        /\ \A i \in 1..n :
              /\ IsOp(log[n + 2 * i - 1], "transformation")
              /\ IsOp(log[n + 2 * i], "validation") /\ log[n + 2 * i].valid
        /\ \A i \in 1..n :
              IsOp(log[3 * n + i], "catalog_integration") /\ log[3 * n + i].status = "success"

\* C27: an audit of a supplier whose ledger is that of one pipeline run
\* without any error reports a success rate of at least 0.95 and
\* compliance_status = "compliant".
C27_CleanRunAuditsCompliant ==
    (/\ last.op = "audit_supplier"
     /\ CleanRun(ledger[last.sup])
     /\ auditLog # <<>>)
        => /\ LastReport.supplier = last.sup
           /\ 100 * LastReport.success_rate.successes >= 95 * LastReport.success_rate.total
           /\ LastReport.compliance_status = "compliant"


\* the elements of seq are in ascending order of price.final
AscendingByFinal(seq) ==
    \A i \in 1..(Len(seq) - 1) : seq[i].price.final <= seq[i + 1].price.final

\* a and b hold the same elements, each as often
SameElements(a, b) ==
    /\ Len(a) = Len(b)
    /\ \A x \in Range(a) \cup Range(b) :
          Count(a, LAMBDA y : y = x) = Count(b, LAMBDA y : y = x)

\* C28: search and compare never change the catalog: after every call the
\* instance's product list has the content and the order it had before the
\* call, and compare returns the matches of search(query) in ascending
\* order of price.final
C28_QueriesKeepCatalog ==
    [][/\ procs'.menu.catalog.products = procs.menu.catalog.products
       /\ procs'.menu.call = "compare_products" =>
             /\ AscendingByFinal(procs'.menu.returned)
             /\ SameElements(procs'.menu.returned,
                             search_products(procs.menu.catalog,
                                 [query |-> procs'.menu.args.product_name]).results)]_vars


\* C29: when both managers have loaded the same persisted catalog and each
\* has integrated its supplier and returned, the persisted catalog holds
\* the new batch of both suppliers
C29_BothIntegrationsPersist ==
    (/\ \A m \in Managers : procs[m].pc = "returned"
     /\ procs["m1"].loaded = procs["m2"].loaded)
        => \A m \in Managers :
              SupplierProducts(Catalog.products, SupplierOf(m)) = normFile[SupplierOf(m)]


\* C30: when a call of integrate_supplier has returned or aborted, every
\* product for which the call appended a catalog_integration entry with
\* status success is in the persisted catalog
C30_LedgerNeverAheadOfCatalog ==
    [][last'.op = "integrate" =>
          \A i \in (Len(ledger[last'.sup]) + 1)..Len(ledger'[last'.sup]) :
             LET entry == ledger'[last'.sup][i]
             IN  (entry.operation = "catalog_integration" /\ entry.status = "success")
                    => \E j \in DOMAIN _load_catalog(catalogFile').products :
                          _load_catalog(catalogFile').products[j].id = entry.product_id]_vars

====
